---------------------------- MODULE Spec2Model ----------------------------
(***************************************************************************)
(* Mold-Prevention-System: the sensor node's health diagnostics            *)
(* (system_health.c) and its three-task scheduler (main.c).                *)
(*                                                                         *)
(* Numbers: a Zephyr sensor_value is the pair (val1, val2) standing for    *)
(* val1 + val2 / 1000000.  Every float of the firmware is kept here as an  *)
(* integer number of millionths.  The sample grids below hold only values  *)
(* whose fractional part is 0 or one half, and the averages taken of them  *)
(* are multiples of one quarter: all are exact in binary floating point,   *)
(* so integer arithmetic on millionths computes what the float code does.  *)
(***************************************************************************)
EXTENDS Integers, Sequences, FiniteSets, TLC

VARIABLES
    \* ---- sensor node scheduler (main.c) ----
    IS_SIMULATION_NODE,   \* build switch of the node (part_001:37)
    pc,                   \* position of each task in its loop body
    sensors_lock,         \* owner of K_MUTEX sensors_lock, or NoTask
    coap_lock,            \* owner of K_MUTEX coap_lock, or NoTask
    sensor_a_enabled,     \* global flag
    sensor_b_enabled,     \* global flag
    status,               \* Health task's local status[2]
    valid_read,           \* per reader task: local valid_read
    temparature,          \* per reader task: local temparature (millionths)
    humidity,             \* per reader task: local humidity (millionths)
    room_state,           \* MoldUpdate task's view of its vtt_state_t
    json_buffer,          \* messaging_service.c: static char json_buffer[256]
    radio,                \* _send_coap_payload's CoAP message (myMessage) while the
                          \* call that made it is the task's latest step
    sent_in_cycle,        \* per task: reports handed over in the current cycle
    accessed,             \* per reader task: the sensors it touched in this cycle
    \* ---- stand-alone run of check_system_health ----
    diag                  \* [pc, A, B, status]: driver answers in, status[2] out

VARIABLES
    \* ---- server node (server_node/src/main.c and its modules) ----
    registry,             \* node_manager.c: static node_info_t registry[MAX_NODES]
    registry_lock,        \* owner of K_MUTEX registry_lock, or NoTask
    server_queue,         \* main.c: K_MSGQ server_queue, oldest message first
    uptime,               \* k_uptime_get(), in ms
    net,                  \* storedata_request_handler: its position and locals
    wd,                   \* node_manager_thread_entrypoint: its position and locals
    lost_alerts,          \* per address: node_lost messages put in server_queue
                          \* since node_manager_update last wrote its entry
    sink                  \* serial_bridge.c: the lines printk has written, newest
                          \* last (the console keeps the last Lines of them)

nodeVars == <<IS_SIMULATION_NODE, pc, sensors_lock, coap_lock, sensor_a_enabled,
              sensor_b_enabled, status, valid_read, temparature, humidity,
              room_state, json_buffer, radio, sent_in_cycle, accessed>>
serverVars == <<registry, registry_lock, server_queue, uptime, net, wd, lost_alerts,
                sink>>
vars == <<nodeVars, diag, serverVars>>

-----------------------------------------------------------------------------
(* system_health.h                                                         *)

HEALTH_OK == 0
VALUE_DRIFT == 1
SENSOR_SDASCL_FAIL == 2
SENSOR_NOT_READY == 3
SENSOR_VCC_FAIL == 4
SENSOR_FETCH_FAIL == 5
TEMP_VALUE_GET_FAIL == 6
HUMI_VALUE_GET_FAIL == 7
VALUES_GET_FAIL == 8
TEMPERATURE_VAL_OUT_OF_RANGE == 9
HUMIDITIY_VAL_OUT_OF_RANGE == 10
VALUES_OUT_OF_RANGE == 11

MAX_DRIFT_THRESHOLD == 5
TEMP_MIN_VALID == -40
TEMP_MAX_VALID == 80
HUMIDITY_MIN_VALID == 0
HUMIDITY_MAX_VALID == 100

\* One unit of sensor_value.val1 in units of val2.
Micro == 1000000

\* double sensor_value_to_double(const struct sensor_value *val), in millionths.
sensor_value_to_double(v) == v.val1 * Micro + v.val2

-----------------------------------------------------------------------------
(* The driver boundary.  A Reading is what the DHT20 driver answers during *)
(* one access to one sensor: the results of device_is_ready,               *)
(* sensor_sample_fetch and the two sensor_channel_get calls, and the two   *)
(* decoded sensor_values.                                                  *)

\* How far past the drift threshold the mid-range grid reaches.
DriftSpan == 1

Half == Micro \div 2

\* val2 carries the sign of the value (Zephyr's sensor_value contract).
Val2Of(v1) == IF v1 > 0 THEN {0, Half}
              ELSE IF v1 < 0 THEN {0, -Half}
              ELSE {-Half, 0, Half}

SensorValues(ints) == UNION {{[val1 |-> v1, val2 |-> v2] : v2 \in Val2Of(v1)} : v1 \in ints}

TempVal1 == {TEMP_MIN_VALID - 1, TEMP_MIN_VALID, TEMP_MAX_VALID, TEMP_MAX_VALID + 1, 85}
              \cup (20 .. (20 + MAX_DRIFT_THRESHOLD + DriftSpan))
HumVal1 == {HUMIDITY_MIN_VALID - 1, HUMIDITY_MIN_VALID, HUMIDITY_MAX_VALID,
            HUMIDITY_MAX_VALID + 1, 150}
              \cup (50 .. (50 + MAX_DRIFT_THRESHOLD + DriftSpan))

ZeroValue == [val1 |-> 0, val2 |-> 0]

\* A reading whose sample was decoded.
Samples(temps, hums) ==
    [ready : {1}, fetch : {0}, tget : {0}, hget : {0}, temperature : temps, humidity : hums]

\* A reading that fails before both values are decoded.  The fields past the
\* failure are never looked at by check_sensor and are fixed here.
Fail(ready, fetch, tget, hget) ==
    [ready |-> ready, fetch |-> fetch, tget |-> tget, hget |-> hget,
     temperature |-> ZeroValue, humidity |-> ZeroValue]

FailedReadings ==
    { Fail(0, 0, 0, 0), Fail(-1, 0, 0, 0),        \* device_is_ready: 0, other
      Fail(1, -5, 0, 0), Fail(1, -1, 0, 0),       \* sensor_sample_fetch: -EIO, other
      Fail(1, 0, -1, -1), Fail(1, 0, -1, 0), Fail(1, 0, 0, -1) }  \* channel_get

Readings == FailedReadings \cup Samples(SensorValues(TempVal1), SensorValues(HumVal1))

-----------------------------------------------------------------------------
(* system_health.c                                                         *)

\* A check_sensor that tests the single decode failures before the double
\* one.
check_sensor_single_first(r, t0, h0) ==
    LET fail(code) == [code |-> code, temp |-> t0, humi |-> h0]
        t_bad == r.temperature.val1 < TEMP_MIN_VALID \/ r.temperature.val1 > TEMP_MAX_VALID
        h_bad == r.humidity.val1 < HUMIDITY_MIN_VALID \/ r.humidity.val1 > HUMIDITY_MAX_VALID
    IN  IF r.ready # 1 THEN
            (IF r.ready = 0 THEN fail(SENSOR_SDASCL_FAIL) ELSE fail(SENSOR_NOT_READY))
        ELSE IF r.fetch # 0 THEN
            (IF r.fetch = -5 THEN fail(SENSOR_VCC_FAIL) ELSE fail(SENSOR_FETCH_FAIL))
        ELSE IF r.tget # 0 THEN fail(TEMP_VALUE_GET_FAIL)
        ELSE IF r.hget # 0 THEN fail(HUMI_VALUE_GET_FAIL)
        ELSE IF t_bad THEN fail(TEMPERATURE_VAL_OUT_OF_RANGE)
        ELSE IF h_bad THEN fail(HUMIDITIY_VAL_OUT_OF_RANGE)
        ELSE [code |-> HEALTH_OK,
              temp |-> sensor_value_to_double(r.temperature),
              humi |-> sensor_value_to_double(r.humidity)]

\* The driver calls check_sensor makes for a reading, in its order: it
\* returns after device_is_ready when the device is not ready, after
\* sensor_sample_fetch when the fetch fails, and otherwise makes both
\* sensor_channel_get calls.
check_sensor_calls(r) ==
    IF r.ready # 1 THEN <<"device_is_ready">>
    ELSE IF r.fetch # 0 THEN <<"device_is_ready", "sensor_sample_fetch">>
    ELSE <<"device_is_ready", "sensor_sample_fetch",
           "sensor_channel_get", "sensor_channel_get">>

\* The result of check_sensor: the status code and *final_temp, *final_humi,
\* which keep the caller's values (t0, h0) unless the check succeeds.
check_sensor(r, t0, h0) ==
    LET fail(code) == [code |-> code, temp |-> t0, humi |-> h0]
        t_bad == r.temperature.val1 < TEMP_MIN_VALID \/ r.temperature.val1 > TEMP_MAX_VALID
        h_bad == r.humidity.val1 < HUMIDITY_MIN_VALID \/ r.humidity.val1 > HUMIDITY_MAX_VALID
    IN  IF r.ready # 1 THEN
            (IF r.ready = 0 THEN fail(SENSOR_SDASCL_FAIL) ELSE fail(SENSOR_NOT_READY))
        ELSE IF r.fetch # 0 THEN
            (IF r.fetch = -5 THEN fail(SENSOR_VCC_FAIL) ELSE fail(SENSOR_FETCH_FAIL))
        ELSE IF r.tget # 0 /\ r.hget # 0 THEN fail(VALUES_GET_FAIL)
        ELSE IF r.tget # 0 /\ r.hget = 0 THEN fail(TEMP_VALUE_GET_FAIL)
        ELSE IF r.hget # 0 /\ r.tget = 0 THEN fail(HUMI_VALUE_GET_FAIL)
        ELSE IF t_bad THEN fail(TEMPERATURE_VAL_OUT_OF_RANGE)
        ELSE IF h_bad THEN fail(HUMIDITIY_VAL_OUT_OF_RANGE)
        ELSE IF t_bad /\ h_bad THEN fail(VALUES_OUT_OF_RANGE)
        ELSE [code |-> HEALTH_OK,
              temp |-> sensor_value_to_double(r.temperature),
              humi |-> sensor_value_to_double(r.humidity)]

Abs(x) == IF x < 0 THEN -x ELSE x

\* check_drift with an inclusive threshold (>= in place of >).
check_drift_inclusive(t1, h1, t2, h2, st) ==
    IF (IF t1 < t2 THEN t2 - t1 ELSE t1 - t2) >= MAX_DRIFT_THRESHOLD * Micro
         \/ (IF h1 < h2 THEN h2 - h1 ELSE h1 - h2) >= MAX_DRIFT_THRESHOLD * Micro
    THEN <<IF st[1] = HEALTH_OK THEN VALUE_DRIFT ELSE st[1],
           IF st[2] = HEALTH_OK THEN VALUE_DRIFT ELSE st[2]>>
    ELSE st

\* check_drift: the status array after the cross-check.
check_drift(t1, h1, t2, h2, st) ==
    LET temp_diff == Abs(t1 - t2)
        hum_diff == Abs(h1 - h2)
    IN  IF temp_diff > MAX_DRIFT_THRESHOLD * Micro \/ hum_diff > MAX_DRIFT_THRESHOLD * Micro
        THEN <<IF st[1] = HEALTH_OK THEN VALUE_DRIFT ELSE st[1],
               IF st[2] = HEALTH_OK THEN VALUE_DRIFT ELSE st[2]>>
        ELSE st

\* A check_system_health that runs the cross-check whatever the two
\* individual checks returned.
check_system_health_always_drift(rA, rB) ==
    LET a == check_sensor(rA, 0, 0)
        b == check_sensor(rB, 0, 0)
    IN  check_drift(a.temp, a.humi, b.temp, b.humi, <<a.code, b.code>>)

\* check_system_health: status[0], status[1] as the pair <<st[1], st[2]>>.
check_system_health(rA, rB) ==
    LET a == check_sensor(rA, 0, 0)
        b == check_sensor(rB, 0, 0)
        st == <<a.code, b.code>>
    IN  IF st[1] = HEALTH_OK /\ st[2] = HEALTH_OK
        THEN check_drift(a.temp, a.humi, b.temp, b.humi, st)
        ELSE st

-----------------------------------------------------------------------------
(* messaging_service.c: what snprintf writes into json_buffer.  The room   *)
(* name is the same constant in every report and is left out.              *)

ALERT_MESSAGE == "ALERT"
DATA_MESSAGE == "DATA"

\* printf's "%.2f": a value in millionths rounded to hundredths, ties to even.
Fmt2(x) ==
    LET q == x \div 10000
        r == x % 10000
    IN  IF r > 5000 \/ (r = 5000 /\ q % 2 = 1) THEN q + 1 ELSE q

EmptyBuffer == [kind |-> "empty"]
NoMessage == [kind |-> "none"]

msg_send_system_health_status(message_type, sensor_1, sensor_2) ==
    [kind |-> "health", message_type |-> message_type,
     sensor_1_status |-> sensor_1, sensor_2_status |-> sensor_2]

msg_send_simple_data(message_type, temp_c, rh_percent) ==
    [kind |-> "simple", message_type |-> message_type,
     temparature |-> Fmt2(temp_c), humidity |-> Fmt2(rh_percent)]

msg_send_mold_status(message_type, temp_c, rh_percent, mold_index, mold_risk_status, growth_status) ==
    [kind |-> "mold", message_type |-> message_type,
     temparature |-> Fmt2(temp_c), humidity |-> Fmt2(rh_percent),
     mold_index |-> Fmt2(mold_index), mold_risk_status |-> mold_risk_status,
     growth_status |-> IF growth_status THEN 1 ELSE 0]

-----------------------------------------------------------------------------
(* vtt_model.h / vtt_model.c, as far as the scheduler looks at it.         *)

MOLD_RISK_CLEAN == 0
MOLD_RISK_WARNING == 1
MOLD_RISK_ALERT == 2
MOLD_RISK_CRITICAL == 3

vtt_get_risk_level_inclusive(ctx) ==
    IF ctx.mold_index <= 1 * Micro THEN MOLD_RISK_CLEAN
    ELSE IF ctx.mold_index <= 3 * Micro THEN MOLD_RISK_WARNING
    ELSE IF ctx.mold_index <= 4 * Micro THEN MOLD_RISK_ALERT
    ELSE MOLD_RISK_CRITICAL

vtt_get_risk_level(ctx) ==
    IF ctx.mold_index < 1 * Micro THEN MOLD_RISK_CLEAN
    ELSE IF ctx.mold_index < 3 * Micro THEN MOLD_RISK_WARNING
    ELSE IF ctx.mold_index < 4 * Micro THEN MOLD_RISK_ALERT
    ELSE MOLD_RISK_CRITICAL

\* The index values the scheduler model tells apart: one per risk band.
IndexLevels == {0, 1 * Micro, 3 * Micro, 4 * Micro}

-----------------------------------------------------------------------------
(* vtt_model.c.  mold_index, rh_crit and the humidities are in millionths, *)
(* the hours in thousandths (Milli), so that a rate per hour times a time  *)
(* step stays an integer.                                                  *)

VTT_MAT_SENSITIVE == 0
VTT_MAT_MEDIUM_RESISTANT == 1
VTT_MAT_RESISTANT == 2

\* One hour in the unit of time_step_hours, time_wet_hours, time_dry_hours.
Milli == 1000

MAX_INDEX_CAP == 6 * Micro
MIN_INDEX_CAP == 0 * Micro
RH_CRIT_MIN_WARM == 80 * Micro

clampf_low_only(value, min, max) ==
    IF value < min THEN min ELSE value

clampf(value, min, max) ==
    IF value < min THEN min
    ELSE IF value > max THEN max
    ELSE value

\* RH_crit for temperature T (clamped to [0.1, 60] by the caller).  The
\* polynomial -0.00267 T^3 + 0.160 T^2 - 3.13 T + 100 is taken on T in tenths
\* of a degree.
calculate_rh_critical(ctx, T) ==
    IF T > 20 * Micro
    THEN RH_CRIT_MIN_WARM + ctx.rh_mat
    ELSE LET T10 == T \div 100000
             rh_base == ((-267 * T10 * T10 * T10) \div 100) + (1600 * T10 * T10)
                          - (313000 * T10) + 100 * Micro
         IN  rh_base + ctx.rh_mat

\* vtt_init: memset to 0, then the material and its coefficients.
\* last_growth_rate and max_possible_index, which no code reads back, are
\* left out of the record.
vtt_init(mat) ==
    [material |-> mat,
     surface_quality |-> IF mat \in {VTT_MAT_MEDIUM_RESISTANT, VTT_MAT_RESISTANT} THEN Micro ELSE 0,
     wood_species |-> IF mat \in {VTT_MAT_MEDIUM_RESISTANT, VTT_MAT_RESISTANT} THEN Micro ELSE 0,
     rh_mat |-> IF mat = VTT_MAT_MEDIUM_RESISTANT THEN 3 * Micro
                ELSE IF mat = VTT_MAT_RESISTANT THEN 6 * Micro ELSE 0,
     growing_condition |-> FALSE,
     rh_crit |-> 0,
     mold_index |-> 0,
     time_wet_hours |-> 0,
     time_dry_hours |-> 0]

\* room_state after vtt_init(&room_state, VTT_MAT_SENSITIVE).
room_state_init == vtt_init(VTT_MAT_SENSITIVE)

\* room_state after vtt_update, as the scheduler sees it: the step is a growth
\* step (the index does not fall) or a decline step (the index does not
\* rise); which one, and by how much, is left open here.  Of the two times
\* only the running one is told from zero (it is kept at one hour), and
\* rh_crit is kept at its warm value.
room_state_update(ctx, L) ==
    { [ctx EXCEPT !.mold_index = l,
                  !.growing_condition = g,
                  !.rh_crit = RH_CRIT_MIN_WARM + ctx.rh_mat,
                  !.time_wet_hours = IF g THEN Milli ELSE 0,
                  !.time_dry_hours = IF g THEN 0 ELSE Milli] :
        l \in { x \in L : x >= ctx.mold_index }, g \in {TRUE} }
    \cup
    { [ctx EXCEPT !.mold_index = l,
                  !.growing_condition = g,
                  !.rh_crit = RH_CRIT_MIN_WARM + ctx.rh_mat,
                  !.time_wet_hours = IF g THEN Milli ELSE 0,
                  !.time_dry_hours = IF g THEN 0 ELSE Milli] :
        l \in { x \in L : x <= ctx.mold_index }, g \in {FALSE} }

\* m_max_calc = 6 (safe_rh - rh_crit) / (100 - rh_crit), to a thousandth, and
\* its clamp to [0, 6]; called with rh_crit < safe_rh <= 100.
max_possible_index(safe_rh, rh_crit) ==
    LET m_max_calc == (6 * (safe_rh - rh_crit)) \div ((100 * Micro - rh_crit) \div Milli)
    IN  clampf(m_max_calc, 0, 6 * Milli) * Milli

\* decline_rate per hour for a dry time.
decline_rate_no_dieoff(time_dry_hours) ==
    IF time_dry_hours <= 6 * Milli THEN -32000 ELSE 0

decline_rate_no_stability(time_dry_hours) ==
    IF time_dry_hours <= 6 * Milli THEN -32000 ELSE -16000

decline_rate(time_dry_hours) ==
    IF time_dry_hours <= 6 * Milli THEN -32000
    ELSE IF time_dry_hours <= 24 * Milli THEN 0
    ELSE -16000

vtt_update_keeps_dry(ctx, temp_c, rh_percent, time_step_hours, G) ==
    LET safe_t == clampf(temp_c, 100000, 60 * Micro)
        safe_rh == clampf(rh_percent, 1 * Micro, 100 * Micro)
        rh_crit == calculate_rh_critical(ctx, safe_t)
    IN  IF safe_rh > rh_crit
        THEN { [ctx EXCEPT !.rh_crit = rh_crit,
                           !.time_wet_hours = @ + time_step_hours,
                           !.growing_condition = TRUE,
                           !.mold_index = clampf(@ + dM, MIN_INDEX_CAP, MAX_INDEX_CAP)] :
                 dM \in G }
        ELSE { [ctx EXCEPT !.rh_crit = rh_crit,
                           !.time_dry_hours = @ + time_step_hours,
                           !.time_wet_hours = 0,
                           !.growing_condition = FALSE,
                           !.mold_index = clampf(@ + (decline_rate(ctx.time_dry_hours + time_step_hours)
                                                        * time_step_hours) \div Milli,
                                                 MIN_INDEX_CAP, MAX_INDEX_CAP)] }

\* vtt_update: the states the step may leave.  Steps B to D of the growth
\* phase give dM = k1 k2 base_growth_rate time_step_hours with k1 > 0,
\* base_growth_rate > 0 and k2 = max(1 - exp(2.3 (M - M_max)), 0): dM is 0
\* when the index has reached max_possible_index and not negative otherwise;
\* G holds the values it may take then.
vtt_update(ctx, temp_c, rh_percent, time_step_hours, G) ==
    LET safe_t == clampf(temp_c, 100000, 60 * Micro)
        safe_rh == clampf(rh_percent, 1 * Micro, 100 * Micro)
        rh_crit == calculate_rh_critical(ctx, safe_t)
    IN  IF safe_rh > rh_crit
        THEN { [ctx EXCEPT !.rh_crit = rh_crit,
                           !.time_wet_hours = @ + time_step_hours,
                           !.time_dry_hours = 0,
                           !.growing_condition = TRUE,
                           !.mold_index = clampf(@ + dM, MIN_INDEX_CAP, MAX_INDEX_CAP)] :
                 dM \in IF \/ ctx.mold_index >= max_possible_index(safe_rh, rh_crit)
                           \/ time_step_hours = 0
                        THEN {0} ELSE G }
        ELSE LET time_dry == ctx.time_dry_hours + time_step_hours
                 dM == (decline_rate(time_dry) * time_step_hours) \div Milli
             IN  { [ctx EXCEPT !.rh_crit = rh_crit,
                               !.time_dry_hours = time_dry,
                               !.time_wet_hours = 0,
                               !.growing_condition = FALSE,
                               !.mold_index = clampf(@ + dM, MIN_INDEX_CAP, MAX_INDEX_CAP)] }

-----------------------------------------------------------------------------
(* main.c: the three tasks.                                                *)

Health == "Health"
Telemetry == "Telemetry"
MoldUpdate == "MoldUpdate"
Tasks == {Health, Telemetry, MoldUpdate}
Readers == {Telemetry, MoldUpdate}
NoTask == "none"

Goto(t, l) == pc' = [pc EXCEPT ![t] = l]

\* A lock call that returns at once whoever owns the mutex (K_NO_WAIT with
\* the return code ignored).
k_mutex_no_wait(m) == TRUE

\* An unlock call that leaves the mutex with its owner.
k_mutex_kept(m, t) == m

\* k_mutex_lock(&m, K_FOREVER) returns only once the mutex is free (no task
\* of the node locks a mutex it already owns).
k_mutex_free(m) == m = NoTask
\* k_mutex_unlock(&m) by task t: releases the mutex when t owns it, and
\* fails with no effect otherwise.
k_mutex_unlock(m, t) == IF m = t THEN NoTask ELSE m

\* A flag that only HEALTH_OK keeps set.
Enabled_ok_only(code) == code < 1

\* sensor_x_enabled = (status[x] <= 1)
Enabled(code) == code <= 1

\* ---- system_health_entry_point ----

Health_LockSensors ==
    /\ pc[Health] = "lock_sensors"
    /\ k_mutex_free(sensors_lock)
    /\ sensors_lock' = Health
    /\ Goto(Health, "check")
    /\ UNCHANGED <<serverVars, IS_SIMULATION_NODE, coap_lock, sensor_a_enabled, sensor_b_enabled, status,
                   valid_read, temparature, humidity, room_state, json_buffer, radio,
                   sent_in_cycle, accessed, diag>>

\* The diagnostic run after the Health task has given sensors_lock back.
Health_Check_unlocked(P) ==
    /\ pc[Health] = "check"
    /\ \E r \in P : status' = check_system_health(r[1], r[2])
    /\ sensors_lock' = NoTask
    /\ pc' = [pc EXCEPT ![Health] = "set_a"]
    /\ UNCHANGED <<serverVars, IS_SIMULATION_NODE, coap_lock, sensor_a_enabled,
                   sensor_b_enabled, valid_read, temparature, humidity, room_state,
                   json_buffer, radio, sent_in_cycle, accessed, diag>>

\* check_system_health(dht20_dev_a, dht20_dev_b, status); P: what the two
\* sensors may answer, as pairs <<reading of A, reading of B>>.
Health_Check(P) ==
    /\ pc[Health] = "check"
    /\ \E r \in P : status' = check_system_health(r[1], r[2])
    /\ Goto(Health, "set_a")
    /\ UNCHANGED <<serverVars, IS_SIMULATION_NODE, sensors_lock, coap_lock, sensor_a_enabled,
                   sensor_b_enabled, valid_read, temparature, humidity, room_state,
                   json_buffer, radio, sent_in_cycle, accessed, diag>>

Health_SetA ==
    /\ pc[Health] = "set_a"
    /\ sensor_a_enabled' = Enabled(status[1])
    /\ Goto(Health, "set_b")
    /\ UNCHANGED <<serverVars, IS_SIMULATION_NODE, sensors_lock, coap_lock, sensor_b_enabled, status,
                   valid_read, temparature, humidity, room_state, json_buffer, radio,
                   sent_in_cycle, accessed, diag>>

Health_SetB ==
    /\ pc[Health] = "set_b"
    /\ sensor_b_enabled' = Enabled(status[2])
    /\ Goto(Health, "unlock_sensors")
    /\ UNCHANGED <<serverVars, IS_SIMULATION_NODE, sensors_lock, coap_lock, sensor_a_enabled, status,
                   valid_read, temparature, humidity, room_state, json_buffer, radio,
                   sent_in_cycle, accessed, diag>>

Health_UnlockSensors ==
    /\ pc[Health] = "unlock_sensors"
    /\ sensors_lock' = k_mutex_unlock(sensors_lock, Health)
    /\ Goto(Health, "lock_coap")
    /\ UNCHANGED <<serverVars, IS_SIMULATION_NODE, coap_lock, sensor_a_enabled, sensor_b_enabled, status,
                   valid_read, temparature, humidity, room_state, json_buffer, radio,
                   sent_in_cycle, accessed, diag>>

Health_LockCoap ==
    /\ pc[Health] = "lock_coap"
    /\ k_mutex_free(coap_lock)
    /\ coap_lock' = Health
    /\ Goto(Health, "build")
    /\ UNCHANGED <<serverVars, IS_SIMULATION_NODE, sensors_lock, sensor_a_enabled, sensor_b_enabled, status,
                   valid_read, temparature, humidity, room_state, json_buffer, radio,
                   sent_in_cycle, accessed, diag>>

\* is_critical only when both sensors have failed.
is_critical_both(st) == st[1] > 1 /\ st[2] > 1

\* is_critical for any status code other than HEALTH_OK.
is_critical_any(st) == st[1] > 0 \/ st[2] > 0

\* bool is_critical = (status[0] > 1 || status[1] > 1)
is_critical(st) == st[1] > 1 \/ st[2] > 1

\* The report the Health task asks for: ALERT_MESSAGE if is_critical, else
\* DATA_MESSAGE, with both status codes.
HealthReport(st) ==
    IF is_critical(st)
    THEN msg_send_system_health_status(ALERT_MESSAGE, st[1], st[2])
    ELSE msg_send_system_health_status(DATA_MESSAGE, st[1], st[2])

\* msg_send_system_health_status, first half: snprintf into json_buffer.
Health_Build ==
    /\ pc[Health] = "build"
    /\ json_buffer' = HealthReport(status)
    /\ Goto(Health, "send")
    /\ UNCHANGED <<serverVars, IS_SIMULATION_NODE, sensors_lock, coap_lock, sensor_a_enabled,
                   sensor_b_enabled, status, valid_read, temparature, humidity, room_state,
                   radio, sent_in_cycle, accessed, diag>>

\* _send_coap_payload(json_buffer) by task t: the buffer's text, as it is
\* now, is appended to a new CoAP message and handed to the transport.
send_coap_payload(t) ==
    /\ radio' = json_buffer
    /\ sent_in_cycle' = [sent_in_cycle EXCEPT ![t] = @ + 1]

Health_Send ==
    /\ pc[Health] = "send"
    /\ send_coap_payload(Health)
    /\ Goto(Health, "unlock_coap")
    /\ UNCHANGED <<serverVars, IS_SIMULATION_NODE, sensors_lock, coap_lock, sensor_a_enabled,
                   sensor_b_enabled, status, valid_read, temparature, humidity, room_state,
                   json_buffer, accessed, diag>>

\* msg_send_system_health_status returns (the CoAP message now belongs to the
\* OpenThread stack) and the task unlocks coap_lock.
Health_UnlockCoap ==
    /\ pc[Health] = "unlock_coap"
    /\ radio' = NoMessage
    /\ coap_lock' = k_mutex_unlock(coap_lock, Health)
    /\ Goto(Health, "sleep")
    /\ UNCHANGED <<serverVars, IS_SIMULATION_NODE, sensors_lock, sensor_a_enabled, sensor_b_enabled, status,
                   valid_read, temparature, humidity, room_state, json_buffer,
                   sent_in_cycle, accessed, diag>>

\* k_msleep(10000) returns and the next cycle starts.
Health_Sleep ==
    /\ pc[Health] = "sleep"
    /\ sent_in_cycle' = [sent_in_cycle EXCEPT ![Health] = 0]
    /\ Goto(Health, "lock_sensors")
    /\ UNCHANGED <<serverVars, IS_SIMULATION_NODE, sensors_lock, coap_lock, sensor_a_enabled,
                   sensor_b_enabled, status, valid_read, temparature, humidity, room_state,
                   json_buffer, radio, accessed, diag>>

\* ---- the read both reader tasks perform under sensors_lock ----

\* get_simulated_weather at hour current_cycle_hour of the 300-hour cycle.
get_simulated_weather(current_cycle_hour) ==
    IF current_cycle_hour <= 100 THEN [valid |-> TRUE, temp |-> 28 * Micro, humi |-> 95 * Micro]
    ELSE IF current_cycle_hour <= 200 THEN [valid |-> TRUE, temp |-> 25 * Micro, humi |-> 45 * Micro]
    ELSE [valid |-> TRUE, temp |-> 5 * Micro, humi |-> 90 * Micro]

\* A read that does not look at the enabled flags and fetches both sensors.
get_sensor_data_unguarded(a_enabled, b_enabled, V) ==
    { [valid |-> TRUE,
       temp |-> (va.temp + vb.temp) \div 2,
       humi |-> (va.humi + vb.humi) \div 2,
       touched |-> {<<"A", va>>, <<"B", vb>>}] : va \in V, vb \in V }

\* get_sensor_data with both sensors enabled handing out sensor A's values.
get_sensor_data_first(a_enabled, b_enabled, V) ==
    IF a_enabled /\ b_enabled THEN
        { [valid |-> TRUE, temp |-> va.temp, humi |-> va.humi,
           touched |-> {<<"A", va>>, <<"B", vb>>}] : va \in V, vb \in V }
    ELSE IF a_enabled \/ b_enabled THEN
        { [valid |-> TRUE, temp |-> v.temp, humi |-> v.humi,
           touched |-> {<<IF a_enabled THEN "A" ELSE "B", v>>}] : v \in V }
    ELSE { [valid |-> FALSE, temp |-> 0, humi |-> 0, touched |-> {}] }

\* get_sensor_data (part_001), the same code inline in sensor_node1/main.c:
\* the possible results [valid, temp, humi, touched] given the two flags.
\* V: the value pairs a sensor_sample_fetch + two sensor_channel_get may
\* leave in the task's sensor_values (the return codes are not looked at).
\* touched: the sensors fetched and read, each with the values it gave.
get_sensor_data(a_enabled, b_enabled, V) ==
    IF a_enabled /\ b_enabled THEN
        { [valid |-> TRUE,
           temp |-> (va.temp + vb.temp) \div 2,
           humi |-> (va.humi + vb.humi) \div 2,
           touched |-> {<<"A", va>>, <<"B", vb>>}] : va \in V, vb \in V }
    ELSE IF a_enabled \/ b_enabled THEN
        { [valid |-> TRUE, temp |-> v.temp, humi |-> v.humi,
           touched |-> {<<IF a_enabled THEN "A" ELSE "B", v>>}] : v \in V }
    ELSE { [valid |-> FALSE, temp |-> 0, humi |-> 0, touched |-> {}] }

Reader_LockSensors(t) ==
    /\ pc[t] = "lock_sensors"
    /\ k_mutex_free(sensors_lock)
    /\ sensors_lock' = t
    /\ Goto(t, "read")
    /\ UNCHANGED <<serverVars, IS_SIMULATION_NODE, coap_lock, sensor_a_enabled, sensor_b_enabled, status,
                   valid_read, temparature, humidity, room_state, json_buffer, radio,
                   sent_in_cycle, accessed, diag>>

\* H: the hours of the simulated cycle at which the task may run.
Reader_Read(t, V, H) ==
    /\ pc[t] = "read"
    /\ \E got \in IF IS_SIMULATION_NODE
                  THEN { [valid |-> w.valid, temp |-> w.temp, humi |-> w.humi, touched |-> {}] :
                           w \in { get_simulated_weather(h) : h \in H } }
                  ELSE get_sensor_data(sensor_a_enabled, sensor_b_enabled, V) :
          /\ valid_read' = [valid_read EXCEPT ![t] = got.valid]
          /\ temparature' = [temparature EXCEPT ![t] = got.temp]
          /\ humidity' = [humidity EXCEPT ![t] = got.humi]
          /\ accessed' = [accessed EXCEPT ![t] = got.touched]
    /\ Goto(t, "unlock_sensors")
    /\ UNCHANGED <<serverVars, IS_SIMULATION_NODE, sensors_lock, coap_lock, sensor_a_enabled,
                   sensor_b_enabled, status, room_state, json_buffer, radio,
                   sent_in_cycle, diag>>

Reader_UnlockSensors(t) ==
    /\ pc[t] = "unlock_sensors"
    /\ sensors_lock' = k_mutex_unlock(sensors_lock, t)
    /\ Goto(t, "decide")
    /\ UNCHANGED <<serverVars, IS_SIMULATION_NODE, coap_lock, sensor_a_enabled, sensor_b_enabled, status,
                   valid_read, temparature, humidity, room_state, json_buffer, radio,
                   sent_in_cycle, accessed, diag>>

\* A reader that stops for good when it finds no sensor.
Reader_Skip_halts(t) ==
    /\ pc[t] = "decide"
    /\ ~valid_read[t]
    /\ pc' = [pc EXCEPT ![t] = "halted"]
    /\ UNCHANGED <<serverVars, IS_SIMULATION_NODE, sensors_lock, coap_lock, sensor_a_enabled,
                   sensor_b_enabled, status, valid_read, temparature, humidity, room_state,
                   json_buffer, radio, sent_in_cycle, accessed, diag>>

\* A skip that starts the model again from vtt_init.
Reader_Skip_resets(t) ==
    /\ pc[t] = "decide"
    /\ ~valid_read[t]
    /\ Goto(t, "sleep")
    /\ room_state' = IF t = MoldUpdate THEN room_state_init ELSE room_state
    /\ UNCHANGED <<serverVars, IS_SIMULATION_NODE, sensors_lock, coap_lock, sensor_a_enabled,
                   sensor_b_enabled, status, valid_read, temparature, humidity,
                   json_buffer, radio, sent_in_cycle, accessed, diag>>

\* if (valid_read) is false: the warning is logged and the task sleeps.
Reader_Skip(t) ==
    /\ pc[t] = "decide"
    /\ ~valid_read[t]
    /\ Goto(t, "sleep")
    /\ UNCHANGED <<serverVars, IS_SIMULATION_NODE, sensors_lock, coap_lock, sensor_a_enabled,
                   sensor_b_enabled, status, valid_read, temparature, humidity, room_state,
                   json_buffer, radio, sent_in_cycle, accessed, diag>>

\* A reader that goes on to its report without taking coap_lock.
Reader_LockCoap_missing(t) ==
    /\ pc[t] = "lock_coap"
    /\ pc' = [pc EXCEPT ![t] = "build"]
    /\ UNCHANGED <<serverVars, IS_SIMULATION_NODE, sensors_lock, coap_lock, sensor_a_enabled,
                   sensor_b_enabled, status, valid_read, temparature, humidity, room_state,
                   json_buffer, radio, sent_in_cycle, accessed, diag>>

Reader_LockCoap(t) ==
    /\ pc[t] = "lock_coap"
    /\ k_mutex_free(coap_lock)
    /\ coap_lock' = t
    /\ Goto(t, "build")
    /\ UNCHANGED <<serverVars, IS_SIMULATION_NODE, sensors_lock, sensor_a_enabled, sensor_b_enabled, status,
                   valid_read, temparature, humidity, room_state, json_buffer, radio,
                   sent_in_cycle, accessed, diag>>

Reader_Send(t) ==
    /\ pc[t] = "send"
    /\ send_coap_payload(t)
    /\ Goto(t, "unlock_coap")
    /\ UNCHANGED <<serverVars, IS_SIMULATION_NODE, sensors_lock, coap_lock, sensor_a_enabled,
                   sensor_b_enabled, status, valid_read, temparature, humidity, room_state,
                   json_buffer, accessed, diag>>

Reader_UnlockCoap(t) ==
    /\ pc[t] = "unlock_coap"
    /\ radio' = NoMessage
    /\ coap_lock' = k_mutex_unlock(coap_lock, t)
    /\ Goto(t, "sleep")
    /\ UNCHANGED <<serverVars, IS_SIMULATION_NODE, sensors_lock, sensor_a_enabled, sensor_b_enabled, status,
                   valid_read, temparature, humidity, room_state, json_buffer,
                   sent_in_cycle, accessed, diag>>

\* k_msleep returns; the loop body starts over with its locals set anew
\* (temparature = 0.0f, humidity = 0.0f, valid_read = false).
Reader_Sleep(t) ==
    /\ pc[t] = "sleep"
    /\ valid_read' = [valid_read EXCEPT ![t] = FALSE]
    /\ temparature' = [temparature EXCEPT ![t] = 0]
    /\ humidity' = [humidity EXCEPT ![t] = 0]
    /\ accessed' = [accessed EXCEPT ![t] = {}]
    /\ sent_in_cycle' = [sent_in_cycle EXCEPT ![t] = 0]
    /\ Goto(t, "lock_sensors")
    /\ UNCHANGED <<serverVars, IS_SIMULATION_NODE, sensors_lock, coap_lock, sensor_a_enabled,
                   sensor_b_enabled, status, room_state, json_buffer, radio, diag>>

\* ---- simple_data_entry_point ----

\* A Telemetry task that goes on to its report whatever the read gave.
Telemetry_Valid_unchecked ==
    /\ pc[Telemetry] = "decide"
    /\ pc' = [pc EXCEPT ![Telemetry] = "lock_coap"]
    /\ UNCHANGED <<serverVars, IS_SIMULATION_NODE, sensors_lock, coap_lock, sensor_a_enabled,
                   sensor_b_enabled, status, valid_read, temparature, humidity, room_state,
                   json_buffer, radio, sent_in_cycle, accessed, diag>>

\* if (valid_read): the task goes on to k_mutex_lock(&coap_lock).
Telemetry_Valid ==
    /\ pc[Telemetry] = "decide"
    /\ valid_read[Telemetry]
    /\ Goto(Telemetry, "lock_coap")
    /\ UNCHANGED <<serverVars, IS_SIMULATION_NODE, sensors_lock, coap_lock, sensor_a_enabled,
                   sensor_b_enabled, status, valid_read, temparature, humidity, room_state,
                   json_buffer, radio, sent_in_cycle, accessed, diag>>

\* msg_send_simple_data, first half: snprintf into json_buffer.
Telemetry_Build ==
    /\ pc[Telemetry] = "build"
    /\ json_buffer' = msg_send_simple_data(DATA_MESSAGE, temparature[Telemetry], humidity[Telemetry])
    /\ Goto(Telemetry, "send")
    /\ UNCHANGED <<serverVars, IS_SIMULATION_NODE, sensors_lock, coap_lock, sensor_a_enabled,
                   sensor_b_enabled, status, valid_read, temparature, humidity, room_state,
                   radio, sent_in_cycle, accessed, diag>>

\* ---- vtt_model_entry_point ----

NotCreated == [kind |-> "uninitialised"]

\* vtt_init(&room_state, VTT_MAT_SENSITIVE), before the loop.
Mold_Init ==
    /\ pc[MoldUpdate] = "init"
    /\ room_state' = room_state_init
    /\ Goto(MoldUpdate, "lock_sensors")
    /\ UNCHANGED <<serverVars, IS_SIMULATION_NODE, sensors_lock, coap_lock, sensor_a_enabled,
                   sensor_b_enabled, status, valid_read, temparature, humidity,
                   json_buffer, radio, sent_in_cycle, accessed, diag>>

\* if (valid_read): vtt_update, then vtt_get_risk_level.
Mold_Update(L) ==
    /\ pc[MoldUpdate] = "decide"
    /\ valid_read[MoldUpdate]
    /\ room_state' \in room_state_update(room_state, L)
    /\ Goto(MoldUpdate, "lock_coap")
    /\ UNCHANGED <<serverVars, IS_SIMULATION_NODE, sensors_lock, coap_lock, sensor_a_enabled,
                   sensor_b_enabled, status, valid_read, temparature, humidity,
                   json_buffer, radio, sent_in_cycle, accessed, diag>>

\* A report tagged DATA as soon as the risk is Clean or nothing grows.
MoldReport_either(temp, humi, ctx) ==
    msg_send_mold_status(IF vtt_get_risk_level(ctx) = MOLD_RISK_CLEAN \/ ~ctx.growing_condition
                         THEN DATA_MESSAGE ELSE ALERT_MESSAGE,
                         temp, humi, ctx.mold_index, vtt_get_risk_level(ctx),
                         ctx.growing_condition)

\* The report the MoldUpdate task asks for.
MoldReport(temp, humi, ctx) ==
    LET mold_risk_level == vtt_get_risk_level(ctx)
        msg_type == IF mold_risk_level = MOLD_RISK_CLEAN /\ ~ctx.growing_condition
                    THEN DATA_MESSAGE ELSE ALERT_MESSAGE
    IN  msg_send_mold_status(msg_type, temp, humi, ctx.mold_index, mold_risk_level,
                             ctx.growing_condition)

\* msg_send_mold_status, first half: snprintf into json_buffer.
Mold_Build ==
    /\ pc[MoldUpdate] = "build"
    /\ json_buffer' = MoldReport(temparature[MoldUpdate], humidity[MoldUpdate], room_state)
    /\ Goto(MoldUpdate, "send")
    /\ UNCHANGED <<serverVars, IS_SIMULATION_NODE, sensors_lock, coap_lock, sensor_a_enabled,
                   sensor_b_enabled, status, valid_read, temparature, humidity, room_state,
                   radio, sent_in_cycle, accessed, diag>>

-----------------------------------------------------------------------------
(* The server node: the registry and watchdog of node_manager.c (part_002), *)
(* the ingestion handler of network_listener.c, the serial bridge and       *)
(* main.c.  Addresses and room names are strings, times are in ms.          *)

MAX_NODES == 10
TIMEOUT_SECONDS == 15

\* K_MSGQ_DEFINE(server_queue, sizeof(server_message_t), 10, 4): max_msgs.
server_queue_max_msgs == 10

\* k_msleep(5000) between two sweeps; k_msleep(10000) before the first one,
\* in a thread created with a delay of K_SECONDS(5).
SWEEP_SLEEP_MS == 5000
FIRST_SWEEP_MS == 15000

Network == "network"
Watchdog == "watchdog"

Slots == 0..(MAX_NODES - 1)

\* A slot of the zero-initialised static registry: source_ip[0] == '\0'.
EmptySlot == [source_ip |-> "", room_name |-> "", last_seen |-> 0, is_online |-> FALSE]

Occupied(reg) == { n \in Slots : reg[n].source_ip # "" }

Lowest(S) == CHOOSE n \in S : \A m \in S : n <= m

\* A put that makes room on a full queue by discarding the oldest message.
k_msgq_put_overwrite(queue, msg) ==
    IF Len(queue) < server_queue_max_msgs
    THEN [queue |-> Append(queue, msg), ok |-> TRUE]
    ELSE [queue |-> Append(Tail(queue), msg), ok |-> TRUE]

\* k_msgq_put(queue, &msg, K_NO_WAIT): the message goes to the end of the
\* queue when there is room, and the call fails at once when there is none.
k_msgq_put(queue, msg) ==
    IF Len(queue) < server_queue_max_msgs
    THEN [queue |-> Append(queue, msg), ok |-> TRUE]
    ELSE [queue |-> queue, ok |-> FALSE]

\* The payload of a sensor report, as far as the server reads it: the value
\* of its "room_name" key, when it has one.
Report(room_name) == [kind |-> "report", room_name |-> room_name]
ReportNoRoom == [kind |-> "report"]

\* Text is a sequence of one-character strings.  Chars spells the words the
\* server model uses, Unspell reads a spelled word back.
Words == {"Kitchen", "Den", "Unknown", "room_name", ""}

Chars(w) ==
    CASE w = "Kitchen" -> <<"K", "i", "t", "c", "h", "e", "n">>
      [] w = "Den" -> <<"D", "e", "n">>
      [] w = "Unknown" -> <<"U", "n", "k", "n", "o", "w", "n">>
      [] w = "room_name" -> <<"r", "o", "o", "m", "_", "n", "a", "m", "e">>
      [] w = "" -> <<>>

Unspell(text) == CHOOSE w \in Words : Chars(w) = text

Quoted(text) == <<"\"">> \o text \o <<"\"">>

\* The text of a report, as far as the server reads it: the braces and the
\* room_name member the sensor node's snprintf formats write.
Text(payload) ==
    IF "room_name" \in DOMAIN payload
    THEN <<"{">> \o Quoted(Chars("room_name")) \o <<":">>
            \o Quoted(Chars(payload.room_name)) \o <<"}">>
    ELSE <<"{", "}">>

\* strstr and strchr from position from on: the position of the first
\* occurrence, 0 (NULL) when there is none.
strstr(text, from, key) ==
    LET at == { i \in from..(Len(text) - Len(key) + 1) :
                   SubSeq(text, i, i + Len(key) - 1) = key }
    IN  IF at = {} THEN 0 ELSE CHOOSE i \in at : \A j \in at : i <= j

strchr(text, from, c) == strstr(text, from, <<c>>)

\* sizeof(room_name_buffer)
ROOM_NAME_BUFFER_SIZE == 20

\* strncpy(out_buffer, text, n) with the terminator written after it: the
\* first n characters of text.
strncpy(text, n) == SubSeq(text, 1, IF Len(text) < n THEN Len(text) ELSE n)

\* A parse that takes a value only when it follows the key and a colon
\* directly.
parse_room_name_strict(json_input, buffer_size) ==
    LET key == Quoted(Chars("room_name")) \o <<":", "\"">>
        found == strstr(json_input, 1, key)
        fallback == strncpy(Chars("Unknown"), buffer_size - 1)
        end_quote == strchr(json_input, found + Len(key), "\"")
        len == end_quote - (found + Len(key))
    IN  IF found = 0 \/ end_quote = 0 THEN fallback
        ELSE SubSeq(json_input, found + Len(key),
                    found + Len(key) - 1 + (IF len >= buffer_size THEN buffer_size - 1 ELSE len))

\* parse_room_name: what out_buffer holds when it returns.  "Unknown" is
\* written first; the value between the first two quotes after the key
\* replaces it, cut to buffer_size - 1 characters.
parse_room_name(json_input, buffer_size) ==
    LET key == Quoted(Chars("room_name"))
        found == strstr(json_input, 1, key)
        fallback == strncpy(Chars("Unknown"), buffer_size - 1)
        start_quote == strchr(json_input, found + Len(key), "\"")
        end_quote == strchr(json_input, start_quote + 1, "\"")
        len == end_quote - (start_quote + 1)
    IN  IF found = 0 THEN fallback
        ELSE IF start_quote = 0 THEN fallback
        ELSE IF end_quote = 0 THEN fallback
        ELSE SubSeq(json_input, start_quote + 1,
                    start_quote + (IF len >= buffer_size THEN buffer_size - 1 ELSE len))

\* The JSON the watchdog formats for a lost node.
NodeLost(room, ip) == [event |-> "node_lost", room |-> room, ip |-> ip]

NoRequest == [source_ip |-> "", json_payload |-> [kind |-> "none"]]

NetIdle == [pc |-> "idle", msg |-> NoRequest, confirmable |-> FALSE, direct |-> FALSE,
            room_name_buffer |-> "", now |-> 0, found |-> FALSE, node |-> 0,
            writes |-> <<>>,
            put_ok |-> FALSE, acks |-> 0, updates |-> 0, requests |-> 0]

\* The server once main() has created its threads.
ServerBoot ==
    /\ registry = [n \in Slots |-> EmptySlot]
    /\ registry_lock = NoTask
    /\ server_queue = <<>>
    /\ uptime = 0
    /\ net = NetIdle
    /\ wd = [pc |-> "sleep", now |-> 0, node |-> 0, wake |-> FIRST_SWEEP_MS]
    /\ lost_alerts = << >>
    /\ sink = <<>>

LostAlerts(ip) == IF ip \in DOMAIN lost_alerts THEN lost_alerts[ip] ELSE 0

SetLostAlerts(ip, k) ==
    [a \in DOMAIN lost_alerts \cup {ip} |-> IF a = ip THEN k ELSE lost_alerts[a]]

\* storedata_request_handler is called with a request: the sender's address
\* and the payload are copied into msg.  requests counts the calls, Max of
\* them at most.
Net_Receive(A, P, C, Max) ==
    /\ net.pc = "idle"
    /\ net.requests < Max
    /\ \E ip \in A, payload \in P, confirmable \in C :
          net' = [NetIdle EXCEPT !.pc = "put",
                                 !.msg = [source_ip |-> ip, json_payload |-> payload],
                                 !.confirmable = confirmable,
                                 !.requests = net.requests + 1]
    /\ UNCHANGED <<nodeVars, diag, sink, registry, registry_lock, server_queue, uptime, wd,
                   lost_alerts>>

\* k_msgq_put(outgoing_queue, &msg, K_NO_WAIT); the registry is updated only
\* in the branch where the put succeeded.
Net_Put ==
    /\ net.pc = "put"
    /\ LET r == k_msgq_put(server_queue, net.msg)
       IN  /\ server_queue' = r.queue
           /\ net' = [net EXCEPT !.put_ok = r.ok,
                                 !.pc = IF r.ok THEN "update" ELSE "ack"]
    /\ UNCHANGED <<nodeVars, diag, sink, registry, registry_lock, uptime, wd, lost_alerts>>

\* node_manager_update(ip_addr, room_name) called on its own, not by the
\* handler: the arguments are kept where the handler keeps them, and the
\* call returns to "idle".
Update_Call(A, L, Max) ==
    /\ net.pc = "idle"
    /\ net.requests < Max
    /\ \E ip \in A, room_name \in L :
          net' = [NetIdle EXCEPT !.pc = "update",
                                 !.direct = TRUE,
                                 !.msg = [source_ip |-> ip, json_payload |-> Report(room_name)],
                                 !.requests = net.requests + 1]
    /\ UNCHANGED <<nodeVars, diag, sink, registry, registry_lock, server_queue, uptime, wd,
                   lost_alerts>>

\* parse_room_name, then node_manager_update up to its k_uptime_get().
Update_Enter ==
    /\ net.pc = "update"
    /\ net' = [net EXCEPT !.room_name_buffer =
                             Unspell(parse_room_name(Text(net.msg.json_payload),
                                                     ROOM_NAME_BUFFER_SIZE)),
                          !.now = uptime,
                          !.updates = @ + 1,
                          !.pc = "update_lock"]
    /\ UNCHANGED <<nodeVars, diag, sink, registry, registry_lock, server_queue, uptime, wd,
                   lost_alerts>>

Update_Lock ==
    /\ net.pc = "update_lock"
    /\ k_mutex_free(registry_lock)
    /\ registry_lock' = Network
    /\ net' = [net EXCEPT !.pc = "update_search"]
    /\ UNCHANGED <<nodeVars, diag, sink, registry, server_queue, uptime, wd, lost_alerts>>

\* A search that, finding the registry full, takes the slot of an offline
\* entry when there is one, and slot 0 when there is none.
Update_Search_evicts ==
    /\ net.pc = "update_search"
    /\ LET match == { n \in Occupied(registry) : registry[n].source_ip = net.msg.source_ip }
           empty == Slots \ Occupied(registry)
           offline == { n \in Slots : ~registry[n].is_online }
       IN  net' = IF match # {}
                  THEN [net EXCEPT !.found = TRUE,
                                   !.node = Lowest(match),
                                   !.writes = <<"last_seen", "room_name", "is_online">>,
                                   !.pc = "update_write"]
                  ELSE [net EXCEPT !.found = TRUE,
                                   !.node = Lowest(IF empty # {} THEN empty
                                                   ELSE IF offline # {} THEN offline
                                                   ELSE Slots),
                                   !.writes = <<"source_ip", "room_name", "last_seen",
                                                "is_online">>,
                                   !.pc = "update_write"]
    /\ UNCHANGED <<nodeVars, diag, sink, registry, registry_lock, server_queue, uptime, wd,
                   lost_alerts>>

\* A search that goes straight to the first empty slot.
Update_Search_always_new ==
    /\ net.pc = "update_search"
    /\ LET empty == Slots \ Occupied(registry)
       IN  net' = IF empty # {}
                  THEN [net EXCEPT !.found = TRUE,
                                   !.node = Lowest(empty),
                                   !.writes = <<"source_ip", "room_name", "last_seen",
                                                "is_online">>,
                                   !.pc = "update_write"]
                  ELSE [net EXCEPT !.pc = "update_unlock"]
    /\ UNCHANGED <<nodeVars, diag, sink, registry, registry_lock, server_queue, uptime, wd,
                   lost_alerts>>

\* The two loops of node_manager_update, up to the slot they stop at: the
\* first occupied slot with the address, else the first empty slot, else
\* none (the registry is full and the update is dropped).  writes are the
\* assignments the loop body then makes, in its order.
Update_Search ==
    /\ net.pc = "update_search"
    /\ LET match == { n \in Occupied(registry) : registry[n].source_ip = net.msg.source_ip }
           empty == Slots \ Occupied(registry)
       IN  net' = IF match # {}
                  THEN [net EXCEPT !.found = TRUE,
                                   !.node = Lowest(match),
                                   !.writes = <<"last_seen", "room_name", "is_online">>,
                                   !.pc = "update_write"]
                  ELSE IF empty # {}
                  THEN [net EXCEPT !.found = TRUE,
                                   !.node = Lowest(empty),
                                   !.writes = <<"source_ip", "room_name", "last_seen",
                                                "is_online">>,
                                   !.pc = "update_write"]
                  ELSE [net EXCEPT !.pc = "update_unlock"]
    /\ UNCHANGED <<nodeVars, diag, sink, registry, registry_lock, server_queue, uptime, wd,
                   lost_alerts>>

\* Assignments that leave is_online as the entry had it.
Update_Write_keeps_offline ==
    /\ net.pc = "update_write"
    /\ LET field == Head(net.writes)
           value == CASE field = "source_ip" -> net.msg.source_ip
                      [] field = "room_name" -> net.room_name_buffer
                      [] field = "last_seen" -> net.now
                      [] field = "is_online" -> registry[net.node].is_online
       IN  /\ registry' = [registry EXCEPT ![net.node][field] = value]
           /\ UNCHANGED lost_alerts
    /\ net' = [net EXCEPT !.writes = Tail(@),
                          !.pc = IF Len(net.writes) = 1 THEN "update_unlock" ELSE @]
    /\ UNCHANGED <<nodeVars, diag, sink, registry_lock, server_queue, uptime, wd>>

\* One assignment to registry[node].
Update_Write ==
    /\ net.pc = "update_write"
    /\ LET field == Head(net.writes)
           value == CASE field = "source_ip" -> net.msg.source_ip
                      [] field = "room_name" -> net.room_name_buffer
                      [] field = "last_seen" -> net.now
                      [] field = "is_online" -> TRUE
       IN  /\ registry' = [registry EXCEPT ![net.node][field] = value]
           /\ lost_alerts' = IF field = "is_online"
                             THEN SetLostAlerts(net.msg.source_ip, 0)
                             ELSE lost_alerts
    /\ net' = [net EXCEPT !.writes = Tail(@),
                          !.pc = IF Len(net.writes) = 1 THEN "update_unlock" ELSE @]
    /\ UNCHANGED <<nodeVars, diag, sink, registry_lock, server_queue, uptime, wd>>

Update_Unlock ==
    /\ net.pc = "update_unlock"
    /\ registry_lock' = k_mutex_unlock(registry_lock, Network)
    /\ net' = [net EXCEPT !.pc = IF net.direct THEN "idle" ELSE "ack",
                          !.now = 0, !.node = 0, !.room_name_buffer = ""]
    /\ UNCHANGED <<nodeVars, diag, sink, registry, server_queue, uptime, wd, lost_alerts>>

\* An acknowledgment only for a request whose message was stored.
Net_Ack_when_stored ==
    /\ net.pc = "ack"
    /\ net' = [net EXCEPT !.acks = IF net.confirmable /\ net.put_ok THEN @ + 1 ELSE @,
                          !.pc = "idle"]
    /\ UNCHANGED <<nodeVars, diag, sink, registry, registry_lock, server_queue, uptime, wd,
                   lost_alerts>>

\* send_ack_response for a confirmable request, then the handler returns.
Net_Ack ==
    /\ net.pc = "ack"
    /\ net' = [net EXCEPT !.acks = IF net.confirmable THEN @ + 1 ELSE @,
                          !.pc = "idle"]
    /\ UNCHANGED <<nodeVars, diag, sink, registry, registry_lock, server_queue, uptime, wd,
                   lost_alerts>>

UpdateStep ==
    \/ Update_Enter
    \/ Update_Lock
    \/ Update_Search
    \/ Update_Write
    \/ Update_Unlock

NetStep(A, P, C, Max) ==
    \/ Net_Receive(A, P, C, Max)
    \/ Net_Put
    \/ UpdateStep
    \/ Net_Ack

\* The sleep of the watchdog thread is over: node_manager_check_timeout
\* starts with its k_uptime_get().
Wd_Wake ==
    /\ wd.pc = "sleep"
    /\ uptime >= wd.wake
    /\ wd' = [wd EXCEPT !.pc = "lock", !.now = uptime]
    /\ UNCHANGED <<nodeVars, diag, sink, registry, registry_lock, server_queue, uptime, net,
                   lost_alerts>>

Wd_Lock ==
    /\ wd.pc = "lock"
    /\ k_mutex_free(registry_lock)
    /\ registry_lock' = Watchdog
    /\ wd' = [wd EXCEPT !.pc = "scan", !.node = 0]
    /\ UNCHANGED <<nodeVars, diag, sink, registry, server_queue, uptime, net, lost_alerts>>

\* A loop turn that takes an entry of exactly the timeout's age as expired.
Wd_Scan_inclusive ==
    /\ wd.pc = "scan"
    /\ wd.node < MAX_NODES
    /\ LET entry == registry[wd.node]
           diff == wd.now - entry.last_seen
       IN  IF entry.source_ip # "" /\ entry.is_online /\ diff >= TIMEOUT_SECONDS * 1000
           THEN /\ registry' = [registry EXCEPT ![wd.node].is_online = FALSE]
                /\ wd' = [wd EXCEPT !.pc = "alert"]
           ELSE /\ wd' = [wd EXCEPT !.node = @ + 1]
                /\ UNCHANGED registry
    /\ UNCHANGED <<nodeVars, diag, sink, registry_lock, server_queue, uptime, net, lost_alerts>>

\* One turn of the loop over the registry, up to the alert: empty and
\* offline slots are passed over, an online entry not seen for more than
\* TIMEOUT_SECONDS is marked offline.
Wd_Scan ==
    /\ wd.pc = "scan"
    /\ wd.node < MAX_NODES
    /\ LET entry == registry[wd.node]
           diff == wd.now - entry.last_seen
       IN  IF entry.source_ip # "" /\ entry.is_online /\ diff > TIMEOUT_SECONDS * 1000
           THEN /\ registry' = [registry EXCEPT ![wd.node].is_online = FALSE]
                /\ wd' = [wd EXCEPT !.pc = "alert"]
           ELSE /\ wd' = [wd EXCEPT !.node = @ + 1]
                /\ UNCHANGED registry
    /\ UNCHANGED <<nodeVars, diag, sink, registry_lock, server_queue, uptime, net, lost_alerts>>

\* An alert whose failed put sets the entry online again, for the next
\* sweep to find it expired once more.
Wd_Alert_retries ==
    /\ wd.pc = "alert"
    /\ LET entry == registry[wd.node]
           msg == [source_ip |-> entry.source_ip,
                   json_payload |-> NodeLost(entry.room_name, entry.source_ip)]
           r == k_msgq_put(server_queue, msg)
       IN  /\ server_queue' = r.queue
           /\ registry' = [registry EXCEPT ![wd.node].is_online = ~r.ok]
           /\ lost_alerts' = IF r.ok
                             THEN SetLostAlerts(entry.source_ip, LostAlerts(entry.source_ip) + 1)
                             ELSE lost_alerts
    /\ wd' = [wd EXCEPT !.pc = "scan", !.node = @ + 1]
    /\ UNCHANGED <<nodeVars, diag, sink, registry_lock, uptime, net>>

\* The node_lost message of the entry just marked, put without waiting.
Wd_Alert ==
    /\ wd.pc = "alert"
    /\ LET entry == registry[wd.node]
           msg == [source_ip |-> entry.source_ip,
                   json_payload |-> NodeLost(entry.room_name, entry.source_ip)]
           r == k_msgq_put(server_queue, msg)
       IN  /\ server_queue' = r.queue
           /\ lost_alerts' = IF r.ok
                             THEN SetLostAlerts(entry.source_ip, LostAlerts(entry.source_ip) + 1)
                             ELSE lost_alerts
    /\ wd' = [wd EXCEPT !.pc = "scan", !.node = @ + 1]
    /\ UNCHANGED <<nodeVars, diag, sink, registry, registry_lock, uptime, net>>

\* The loop is over: unlock, return, k_msleep(5000).
Wd_Unlock ==
    /\ wd.pc = "scan"
    /\ wd.node = MAX_NODES
    /\ registry_lock' = k_mutex_unlock(registry_lock, Watchdog)
    /\ wd' = [wd EXCEPT !.pc = "sleep", !.now = 0, !.node = 0,
                        !.wake = uptime + SWEEP_SLEEP_MS]
    /\ UNCHANGED <<nodeVars, diag, sink, registry, server_queue, uptime, net, lost_alerts>>

WatchdogStep ==
    \/ Wd_Wake
    \/ Wd_Lock
    \/ Wd_Scan
    \/ Wd_Alert
    \/ Wd_Unlock

\* The line printk("[DATA]: %s | %s\n", ...) writes for a message.
DataLine(msg) == [tag |-> "[DATA]", source_ip |-> msg.source_ip,
                  json_payload |-> msg.json_payload]

\* The last n elements of a sequence.
LastLines(s, n) == IF Len(s) <= n THEN s ELSE SubSeq(s, Len(s) - n + 1, Len(s))

\* A bridge that takes the newest message of the queue.
Serial_Get_newest(Lines) ==
    /\ server_queue # <<>>
    /\ server_queue' = SubSeq(server_queue, 1, Len(server_queue) - 1)
    /\ sink' = LastLines(Append(sink, DataLine(server_queue[Len(server_queue)])), Lines)
    /\ UNCHANGED <<nodeVars, diag, registry, registry_lock, uptime, net, wd, lost_alerts>>

\* serial_thread_entry: k_msgq_get(..., K_FOREVER) waits for a message and
\* takes the oldest one, printk prints it.
Serial_Get(Lines) ==
    /\ server_queue # <<>>
    /\ server_queue' = Tail(server_queue)
    /\ sink' = LastLines(Append(sink, DataLine(Head(server_queue))), Lines)
    /\ UNCHANGED <<nodeVars, diag, registry, registry_lock, uptime, net, wd, lost_alerts>>

\* Time passes, by one of the amounts D, up to Max.
Tick(D, Max) ==
    /\ \E d \in D : uptime + d <= Max /\ uptime' = uptime + d
    /\ UNCHANGED <<nodeVars, diag, sink, registry, registry_lock, server_queue, net, wd,
                   lost_alerts>>

-----------------------------------------------------------------------------
(* The node.                                                               *)

HealthStep(P) ==
    \/ Health_LockSensors
    \/ Health_Check(P)
    \/ Health_SetA
    \/ Health_SetB
    \/ Health_UnlockSensors
    \/ Health_LockCoap
    \/ Health_Build
    \/ Health_Send
    \/ Health_UnlockCoap
    \/ Health_Sleep

ReaderStep(t, V, H) ==
    \/ Reader_LockSensors(t)
    \/ Reader_Read(t, V, H)
    \/ Reader_UnlockSensors(t)
    \/ Reader_Skip(t)
    \/ Reader_LockCoap(t)
    \/ Reader_Send(t)
    \/ Reader_UnlockCoap(t)
    \/ Reader_Sleep(t)

TelemetryStep(V, H) ==
    \/ ReaderStep(Telemetry, V, H)
    \/ Telemetry_Valid
    \/ Telemetry_Build

MoldUpdateStep(V, H, L) ==
    \/ ReaderStep(MoldUpdate, V, H)
    \/ Mold_Init
    \/ Mold_Update(L)
    \/ Mold_Build

DiagIdle == [pc |-> "idle", A |-> Fail(0, 0, 0, 0), B |-> Fail(0, 0, 0, 0), status |-> <<0, 0>>]

\* The node once main() has created the three threads.
NodeInit ==
    /\ IS_SIMULATION_NODE \in BOOLEAN
    /\ pc = [t \in Tasks |-> IF t = MoldUpdate THEN "init" ELSE "lock_sensors"]
    /\ sensors_lock = NoTask
    /\ coap_lock = NoTask
    /\ sensor_a_enabled = FALSE
    /\ sensor_b_enabled = FALSE
    /\ status = <<0, 0>>
    /\ valid_read = [t \in Readers |-> FALSE]
    /\ temparature = [t \in Readers |-> 0]
    /\ humidity = [t \in Readers |-> 0]
    /\ room_state = NotCreated
    /\ json_buffer = EmptyBuffer
    /\ radio = NoMessage
    /\ sent_in_cycle = [t \in Tasks |-> 0]
    /\ accessed = [t \in Readers |-> {}]
    /\ ServerBoot

\* What the sensors answer in the scheduler model: one reading per failure
\* of check_sensor, two readings that agree, one that drifts from them and
\* one out of range in each field.
Sample(t, h) == [ready |-> 1, fetch |-> 0, tget |-> 0, hget |-> 0,
                 temperature |-> [val1 |-> t, val2 |-> 0],
                 humidity |-> [val1 |-> h, val2 |-> 0]]

\* Both sensors fine, drifting apart, either one off the bus, both off.
NodePairs ==
    { <<Sample(20, 50), Sample(20, 50)>>, <<Sample(20, 50), Sample(26, 50)>>,
      <<Fail(0, 0, 0, 0), Sample(20, 50)>>, <<Sample(20, 50), Fail(0, 0, 0, 0)>>,
      <<Fail(0, 0, 0, 0), Fail(0, 0, 0, 0)>> }

\* What a reader task finds in its sensor_values after a read.
NodeValues == { [temp |-> 20 * Micro, humi |-> 50 * Micro] }

NodeLevels == {0}

NodeHours == {0}

Init == NodeInit /\ diag = DiagIdle

Next ==
    \/ HealthStep(NodePairs)
    \/ TelemetryStep(NodeValues, NodeHours)
    \/ MoldUpdateStep(NodeValues, NodeHours, NodeLevels)

Spec == Init /\ [][Next]_vars

-----------------------------------------------------------------------------
(* check_system_health run on its own (the diagnostic-only main()).        *)

DiagInit ==
    /\ NodeInit
    /\ IS_SIMULATION_NODE = FALSE
    /\ diag \in [pc : {"in"}, A : Readings, B : Readings, status : {<<0, 0>>}]

RunDiagnostic ==
    /\ diag.pc = "in"
    /\ diag' = [diag EXCEPT !.pc = "out", !.status = check_system_health(diag.A, diag.B)]
    /\ UNCHANGED <<nodeVars, serverVars>>

DiagNext == RunDiagnostic

DiagSpec == DiagInit /\ [][DiagNext]_vars

-----------------------------------------------------------------------------
(* The node with sensors that may fail in every way check_sensor tells     *)
(* apart.                                                                  *)

\* One reading per fault check_sensor tells apart: each failure, and samples
\* out of range in one field and in both.
FaultReadings ==
    FailedReadings \cup { Sample(TEMP_MAX_VALID + 1, 50), Sample(20, HUMIDITY_MAX_VALID + 1),
                          Sample(85, 150) }

\* Each fault on A alone, on B alone and on both; no fault, with and without
\* drift.
HealthPairs ==
    { <<Sample(20, 50), Sample(20, 50)>>, <<Sample(20, 50), Sample(26, 50)>> }
      \cup { <<f, Sample(20, 50)>> : f \in FaultReadings }
      \cup { <<Sample(20, 50), f>> : f \in FaultReadings }
      \cup { <<f, f>> : f \in FaultReadings }

HealthNext ==
    \/ HealthStep(HealthPairs)
    \/ TelemetryStep(NodeValues, NodeHours)
    \/ MoldUpdateStep(NodeValues, NodeHours, NodeLevels)

HealthSpec == Init /\ [][HealthNext]_vars

-----------------------------------------------------------------------------
(* The node under fair scheduling: a task that is ready again and again    *)
(* (after a sleep, or each time the mutex it waits for is released) gets   *)
(* to take its next step.                                                  *)

\* What the sensors answer here: both fine, B off the bus, both off the bus.
FairPairs ==
    { <<Sample(20, 50), Sample(20, 50)>>, <<Sample(20, 50), Fail(0, 0, 0, 0)>>,
      <<Fail(0, 0, 0, 0), Fail(0, 0, 0, 0)>> }

FairNext ==
    \/ HealthStep(FairPairs)
    \/ TelemetryStep(NodeValues, NodeHours)
    \/ MoldUpdateStep(NodeValues, NodeHours, NodeLevels)

FairSpec ==
    /\ Init
    /\ [][FairNext]_vars
    /\ SF_vars(HealthStep(FairPairs))
    /\ SF_vars(TelemetryStep(NodeValues, NodeHours))
    /\ SF_vars(MoldUpdateStep(NodeValues, NodeHours, NodeLevels))

-----------------------------------------------------------------------------
(* Positions.                                                              *)

\* The task's next step touches a sensor or an enabled flag.
AtSensors(t) == IF t = Health THEN pc[t] \in {"check", "set_a", "set_b"} ELSE pc[t] = "read"

\* The task's next step writes json_buffer or hands it to the transport.
AtReport(t) == pc[t] \in {"build", "send"}

\* The report task t asks for in this cycle, from its locals.
ReportOf(t) ==
    IF t = Health THEN HealthReport(status)
    ELSE IF t = Telemetry
         THEN msg_send_simple_data(DATA_MESSAGE, temparature[t], humidity[t])
         ELSE MoldReport(temparature[t], humidity[t], room_state)

flags == <<sensor_a_enabled, sensor_b_enabled>>

-----------------------------------------------------------------------------
(* C1: no task holds sensors_lock and coap_lock at the same time: a task   *)
(* that is about to request coap_lock has released sensors_lock, a task    *)
(* about to request sensors_lock does not hold coap_lock, and so no two    *)
(* tasks wait for each other's lock.                                       *)
C1_LocksNeverNested ==
    /\ \A t \in Tasks :
        /\ ~(sensors_lock = t /\ coap_lock = t)
        /\ pc[t] = "lock_coap" => sensors_lock # t
        /\ pc[t] = "lock_sensors" => coap_lock # t
    /\ ~ \E t1, t2 \in Tasks :
           /\ t1 # t2
           /\ sensors_lock = t1 /\ pc[t1] = "lock_coap"
           /\ coap_lock = t2 /\ pc[t2] = "lock_sensors"

\* Both locks are in use at once, by different tasks, while the third task
\* waits for one of them.
C1_Witness ==
    /\ coap_lock = Health
    /\ sensors_lock = Telemetry
    /\ pc[MoldUpdate] = "lock_sensors"

(* C2: a task about to touch a sensor or an enabled flag holds             *)
(* sensors_lock, at most one task is at such a place, and the flags change *)
(* only in a step of the Health task taken at set_a or set_b.              *)
C2_SensorBusExclusive ==
    /\ [](\A t \in Tasks : AtSensors(t) => sensors_lock = t)
    /\ [](Cardinality({t \in Tasks : AtSensors(t)}) <= 1)
    /\ [][flags' # flags =>
            /\ pc[Health] \in {"set_a", "set_b"}
            /\ pc'[Health] # pc[Health]
            /\ sensors_lock = Health]_vars
    /\ [][\A t \in Readers : pc'[t] # pc[t] => flags' = flags]_vars

\* On the node that reads the real sensors, Telemetry is about to read both
\* of them while Health and MoldUpdate wait for the sensor bus.
C2_Witness ==
    /\ ~IS_SIMULATION_NODE
    /\ pc[Telemetry] = "read" /\ sensors_lock = Telemetry
    /\ sensor_a_enabled /\ sensor_b_enabled
    /\ pc[Health] = "lock_sensors" /\ pc[MoldUpdate] = "lock_sensors"

(* C3: a task about to build or send a report holds coap_lock, at most one *)
(* task is at such a place, the buffer a task is about to send and the     *)
(* message it has just sent are the report this task built, and coap_lock  *)
(* is not held by a task that is about to touch a sensor.                  *)
C3_ReportUnderCoapLock ==
    /\ \A t \in Tasks :
        /\ (AtReport(t) \/ pc[t] = "unlock_coap") => coap_lock = t
        /\ pc[t] = "send" => json_buffer = ReportOf(t)
        /\ pc[t] = "unlock_coap" => radio = ReportOf(t)
        /\ AtSensors(t) => coap_lock # t
    /\ Cardinality({t \in Tasks : AtReport(t)}) <= 1

\* Telemetry is about to send its report while the Health task, whose report
\* was in the buffer before, waits for coap_lock with a new one to build.
C3_Witness ==
    /\ pc[Telemetry] = "send" /\ json_buffer.kind = "simple"
    /\ pc[Health] = "lock_coap"
    /\ pc[MoldUpdate] = "lock_coap"

\* The pair of flags a diagnostic with status st leaves behind.
PairOf(st) == <<Enabled(st[1]), Enabled(st[2])>>

\* The sensors a pair of flags enables.
ChannelsOf(pair) == (IF pair[1] THEN {"A"} ELSE {}) \cup (IF pair[2] THEN {"B"} ELSE {})

(* C4: when a reader task is about to read the flags, the pair is the      *)
(* initial (FALSE, FALSE) or the pair of the latest completed diagnostic;  *)
(* what the reader then does follows that pair: it touches exactly the     *)
(* sensors the pair enables.                                               *)
C4_NoTornRead ==
    \A t \in Readers :
        /\ pc[t] = "read" => flags \in {<<FALSE, FALSE>>, PairOf(status)}
        /\ (pc[t] = "unlock_sensors" /\ ~IS_SIMULATION_NODE) =>
              /\ {x[1] : x \in accessed[t]} \in {{}, ChannelsOf(PairOf(status))}
              /\ valid_read[t] = (accessed[t] # {})

\* A reader is about to read the pair (TRUE, FALSE) of a diagnostic that
\* found sensor B faulty.
C4_Witness ==
    /\ ~IS_SIMULATION_NODE
    /\ pc[MoldUpdate] = "read"
    /\ flags = <<TRUE, FALSE>>
    /\ status[1] = HEALTH_OK /\ status[2] = SENSOR_SDASCL_FAIL

FlagsWritten ==
    pc[Health] \in {"unlock_sensors", "lock_coap", "build", "send", "unlock_coap", "sleep"}

(* C6: once the Health task has written the flags of a cycle, each flag is *)
(* TRUE exactly when that cycle's status of its channel is HEALTH_OK or    *)
(* VALUE_DRIFT: every code from 2 to 11 clears it, VALUE_DRIFT keeps it.   *)
C6_EnabledIffAtMostDrift ==
    FlagsWritten =>
        /\ status[1] \in 0 .. 11 /\ status[2] \in 0 .. 11
        /\ sensor_a_enabled <=> status[1] \in {HEALTH_OK, VALUE_DRIFT}
        /\ sensor_b_enabled <=> status[2] \in {HEALTH_OK, VALUE_DRIFT}
        /\ status[1] \in 2 .. 11 => ~sensor_a_enabled
        /\ status[2] \in 2 .. 11 => ~sensor_b_enabled

\* A cycle that ended in drift has left both channels enabled.
C6_Witness ==
    /\ pc[Health] = "sleep"
    /\ status = <<VALUE_DRIFT, VALUE_DRIFT>>
    /\ sensor_a_enabled /\ sensor_b_enabled

(* C7: the Health task sends one report per cycle, none before its send    *)
(* step and one after it; the report carries the two status codes of the   *)
(* cycle and is tagged ALERT when a code is above 1 and DATA otherwise.    *)
C7_OneHealthReportPerCycle ==
    /\ sent_in_cycle[Health] = IF pc[Health] \in {"unlock_coap", "sleep"} THEN 1 ELSE 0
    /\ pc[Health] = "unlock_coap" =>
        /\ radio.kind = "health"
        /\ radio.sensor_1_status = status[1]
        /\ radio.sensor_2_status = status[2]
        /\ radio.message_type = IF status[1] > 1 \/ status[2] > 1 THEN "ALERT" ELSE "DATA"

\* One sensor is fine, the other has failed, and the report is an ALERT.
C7_Witness ==
    /\ pc[Health] = "unlock_coap"
    /\ status[1] = HEALTH_OK /\ status[2] > 1
    /\ radio.message_type = "ALERT"

\* C8 as stated: the health report of a cycle is tagged DATA only when both
\* channels are HEALTH_OK, so a cycle that ends in VALUE_DRIFT sends ALERT.
C8_AlertForDrift ==
    pc[Health] = "unlock_coap" =>
        /\ (VALUE_DRIFT \in {status[1], status[2]}) => radio.message_type = "ALERT"
        /\ radio.message_type = "DATA" => status = <<HEALTH_OK, HEALTH_OK>>

(* C8, amended: the health report is tagged ALERT for every cycle with a   *)
(* hardware fault (a code above 1) on some channel; a cycle that ends with *)
(* the channels in VALUE_DRIFT sends a DATA report carrying the two        *)
(* VALUE_DRIFT codes; a DATA report means no channel has a hardware fault. *)
C8_AlertForFaultsOnly ==
    pc[Health] = "unlock_coap" =>
        /\ (status[1] > 1 \/ status[2] > 1) => radio.message_type = "ALERT"
        /\ status = <<VALUE_DRIFT, VALUE_DRIFT>> =>
              radio = [kind |-> "health", message_type |-> "DATA",
                       sensor_1_status |-> VALUE_DRIFT, sensor_2_status |-> VALUE_DRIFT]
        /\ radio.message_type = "DATA" => (status[1] <= 1 /\ status[2] <= 1)

\* The report of a cycle that ended in drift, tagged DATA.
C8_Witness ==
    /\ pc[Health] = "unlock_coap"
    /\ status = <<VALUE_DRIFT, VALUE_DRIFT>>
    /\ radio.message_type = "DATA"

\* The diagnostic has run and both sensors, each on its own, were found Ok.
BothOk ==
    /\ diag.pc = "out"
    /\ check_sensor(diag.A, 0, 0).code = HEALTH_OK
    /\ check_sensor(diag.B, 0, 0).code = HEALTH_OK

\* |a - b| of two sensor_values, in millionths.
Apart(a, b) ==
    LET x == a.val1 * Micro + a.val2
        y == b.val1 * Micro + b.val2
    IN  IF x < y THEN y - x ELSE x - y

(* C9: when both sensors are Ok on their own, check_system_health returns  *)
(* VALUE_DRIFT for both if the temperatures or the humidities are more     *)
(* than 5.0 apart, and HEALTH_OK for both if neither is; exactly 5.0 apart *)
(* is not drift.                                                           *)
C9_DriftStrictlyAboveThreshold ==
    BothOk =>
        LET dt == Apart(diag.A.temperature, diag.B.temperature)
            dh == Apart(diag.A.humidity, diag.B.humidity)
        IN  /\ (dt > 5 * Micro \/ dh > 5 * Micro) => diag.status = <<VALUE_DRIFT, VALUE_DRIFT>>
            /\ (dt <= 5 * Micro /\ dh <= 5 * Micro) => diag.status = <<HEALTH_OK, HEALTH_OK>>

\* Temperatures exactly 5.0 apart, humidities closer: both stay HEALTH_OK.
C9_Witness ==
    /\ BothOk
    /\ Apart(diag.A.temperature, diag.B.temperature) = 5 * Micro
    /\ Apart(diag.A.humidity, diag.B.humidity) < 5 * Micro
    /\ diag.status = <<HEALTH_OK, HEALTH_OK>>

\* C10 as stated: of a sample that sensor A delivered, temperature alone out
\* of range gives TEMPERATURE_VAL_OUT_OF_RANGE, humidity alone out of range
\* gives HUMIDITIY_VAL_OUT_OF_RANGE, and both out of range give
\* VALUES_OUT_OF_RANGE.
C10_CombinedCodeWins ==
    (/\ diag.pc = "out"
     /\ diag.A.ready = 1 /\ diag.A.fetch = 0 /\ diag.A.tget = 0 /\ diag.A.hget = 0) =>
        LET t_out == diag.A.temperature.val1 < -40 \/ diag.A.temperature.val1 > 80
            h_out == diag.A.humidity.val1 < 0 \/ diag.A.humidity.val1 > 100
        IN  /\ (t_out /\ ~h_out) => diag.status[1] = TEMPERATURE_VAL_OUT_OF_RANGE
            /\ (h_out /\ ~t_out) => diag.status[1] = HUMIDITIY_VAL_OUT_OF_RANGE
            /\ (t_out /\ h_out) => diag.status[1] = VALUES_OUT_OF_RANGE

\* C11 as stated: a decoded sample that check_sensor finds Ok (the status of
\* sensor A is HEALTH_OK, or VALUE_DRIFT after the cross-check) has its full
\* temperature val1 + val2 / 10^6 in [-40, 80] and its full humidity in
\* [0, 100].
C11_FullValueInRange ==
    (/\ diag.pc = "out"
     /\ diag.A.ready = 1 /\ diag.A.fetch = 0 /\ diag.A.tget = 0 /\ diag.A.hget = 0
     /\ diag.status[1] \in {HEALTH_OK, VALUE_DRIFT}) =>
        LET t == diag.A.temperature.val1 * Micro + diag.A.temperature.val2
            h == diag.A.humidity.val1 * Micro + diag.A.humidity.val2
        IN  /\ -40 * Micro <= t /\ t <= 80 * Micro
            /\ 0 <= h /\ h <= 100 * Micro

-----------------------------------------------------------------------------
(* The Health and Telemetry tasks with sensors that give different values: *)
(* every pair of flags comes up, and the two sensors disagree.             *)

\* Both sensors fine, either one off the bus, both off the bus.
ReadPairs ==
    { <<Sample(20, 50), Sample(20, 50)>>, <<Sample(20, 50), Fail(0, 0, 0, 0)>>,
      <<Fail(0, 0, 0, 0), Sample(20, 50)>>, <<Fail(0, 0, 0, 0), Fail(0, 0, 0, 0)>> }

\* -3.5, 20 and 25.5 degrees; 50 and 61 percent.
ReadValues ==
    [temp : {-3 * Micro - Half, 20 * Micro, 25 * Micro + Half}, humi : {50 * Micro, 61 * Micro}]

ReadNext ==
    \/ HealthStep(ReadPairs)
    \/ TelemetryStep(ReadValues, NodeHours)

ReadSpec == Init /\ [][ReadNext]_vars

\* The values sensor ch gave to task t in this cycle's read.
ValuesOf(t, ch) == {x[2] : x \in {y \in accessed[t] : y[1] = ch}}

\* Task t has read under the flags that still stand, on the real sensors.
HasRead(t) == pc[t] = "unlock_sensors" /\ ~IS_SIMULATION_NODE

(* C12: with both flags TRUE the read fetches both sensors and returns the *)
(* arithmetic mean of their temperatures and of their humidities; with one *)
(* flag TRUE it fetches that sensor only and returns its values unchanged; *)
(* with both FALSE it touches no sensor and returns no sample.  The read   *)
(* step leaves the flags as they are.                                      *)
C12_ReadPolicy ==
    /\ [](\A t \in Readers : HasRead(t) =>
            /\ (sensor_a_enabled /\ sensor_b_enabled) =>
                  /\ valid_read[t]
                  /\ Cardinality(accessed[t]) = 2
                  /\ \E va \in ValuesOf(t, "A"), vb \in ValuesOf(t, "B") :
                        /\ 2 * temparature[t] = va.temp + vb.temp
                        /\ 2 * humidity[t] = va.humi + vb.humi
            /\ (sensor_a_enabled /\ ~sensor_b_enabled) =>
                  /\ valid_read[t]
                  /\ accessed[t] = {<<"A", [temp |-> temparature[t], humi |-> humidity[t]]>>}
            /\ (~sensor_a_enabled /\ sensor_b_enabled) =>
                  /\ valid_read[t]
                  /\ accessed[t] = {<<"B", [temp |-> temparature[t], humi |-> humidity[t]]>>}
            /\ (~sensor_a_enabled /\ ~sensor_b_enabled) =>
                  /\ ~valid_read[t]
                  /\ accessed[t] = {})
    /\ [][\A t \in Readers : (pc[t] = "read" /\ pc'[t] # "read") => flags' = flags]_vars

\* Both sensors enabled, A at 20 degrees and 50 percent, B at 25.5 and 61:
\* Telemetry holds 22.75 degrees and 55.5 percent.
C12_Witness ==
    /\ HasRead(Telemetry)
    /\ sensor_a_enabled /\ sensor_b_enabled
    /\ accessed[Telemetry] = {<<"A", [temp |-> 20 * Micro, humi |-> 50 * Micro]>>,
                              <<"B", [temp |-> 25 * Micro + Half, humi |-> 61 * Micro]>>}
    /\ temparature[Telemetry] = 22750000
    /\ humidity[Telemetry] = 55500000

-----------------------------------------------------------------------------
(* The Health and MoldUpdate tasks, with a mold index that moves through   *)
(* all four risk bands.                                                    *)

MoldNext ==
    \/ HealthStep(FairPairs)
    \/ MoldUpdateStep(NodeValues, NodeHours, IndexLevels)

MoldSpec == Init /\ [][MoldNext]_vars

\* The risk level of a mold index, by its bands.
Band(index) ==
    IF index < 1000000 THEN 0 ELSE IF index < 3000000 THEN 1 ELSE IF index < 4000000 THEN 2 ELSE 3

(* C14: the mold report the MoldUpdate task has sent is tagged DATA when   *)
(* the risk level of the state left by this cycle's update is Clean and    *)
(* the state is not growing, and ALERT in every other case; its index,     *)
(* risk level and growing flag are those of that state, which changes only *)
(* at vtt_init and at the update step.                                     *)
C14_MoldReportTag ==
    /\ [](pc[MoldUpdate] = "unlock_coap" =>
            /\ radio.kind = "mold"
            /\ radio.message_type =
                  IF Band(room_state.mold_index) = 0 /\ ~room_state.growing_condition
                  THEN "DATA" ELSE "ALERT"
            /\ radio.mold_index = Fmt2(room_state.mold_index)
            /\ radio.mold_risk_status = Band(room_state.mold_index)
            /\ radio.growth_status = IF room_state.growing_condition THEN 1 ELSE 0)
    /\ [][room_state' # room_state =>
            /\ pc[MoldUpdate] \in {"init", "decide"}
            /\ pc'[MoldUpdate] \in {"lock_sensors", "lock_coap"}]_vars

\* A report of a Clean index that is growing: tagged ALERT.
C14_Witness ==
    /\ pc[MoldUpdate] = "unlock_coap"
    /\ room_state.mold_index = 0 /\ room_state.growing_condition
    /\ radio.message_type = "ALERT" /\ radio.mold_risk_status = MOLD_RISK_CLEAN

-----------------------------------------------------------------------------
(* vtt_model.c driven through its interface: one vtt_init, then vtt_update *)
(* calls with any of the inputs below.  diag keeps the last call's         *)
(* humidity and time step, the number of calls, and the fall of the index  *)
(* seen in a one-hour step of a short (<= 6 h) and of a long (> 24 h) dry  *)
(* spell that left the index above 0.                                      *)

\* vtt_update calls in a run.
MaxCalls == 4

NoDrop == -1

Materials == {VTT_MAT_SENSITIVE, VTT_MAT_MEDIUM_RESISTANT, VTT_MAT_RESISTANT}

\* Below, inside and above the range vtt_update clamps to.
VttTemps == {-5 * Micro, 5 * Micro, 24 * Micro, 70 * Micro}
VttHums == {0, 45 * Micro, 90 * Micro, 95 * Micro, 120 * Micro}

\* No time, the two TIME_STEPs of the node (0.25 h and 1 h), 8 h and 24 h.
VttSteps == {0, Milli \div 4, Milli, 8 * Milli, 24 * Milli}

\* What a growth step may add to the index.
VttGrowth == {0, Micro, 2 * Micro + Half}

VttInit ==
    /\ NodeInit
    /\ IS_SIMULATION_NODE = FALSE
    /\ diag = [pc |-> "vtt", rh_percent |-> 0, time_step_hours |-> 0, calls |-> 0,
               short_drop |-> NoDrop, long_drop |-> NoDrop]

Vtt_Init ==
    /\ room_state = NotCreated
    /\ \E mat \in Materials : room_state' = vtt_init(mat)
    /\ UNCHANGED <<serverVars, IS_SIMULATION_NODE, pc, sensors_lock, coap_lock, sensor_a_enabled,
                   sensor_b_enabled, status, valid_read, temparature, humidity,
                   json_buffer, radio, sent_in_cycle, accessed, diag>>

Vtt_Update(T, RH, DT, G) ==
    /\ room_state # NotCreated
    /\ diag.calls < MaxCalls
    /\ \E temp_c \in T, rh_percent \in RH, time_step_hours \in DT :
          /\ room_state' \in vtt_update(room_state, temp_c, rh_percent, time_step_hours, G)
          /\ LET fall == room_state.mold_index - room_state'.mold_index
                 seen == /\ ~room_state'.growing_condition
                         /\ time_step_hours = Milli
                         /\ room_state'.mold_index > 0
             IN  diag' = [diag EXCEPT
                            !.rh_percent = rh_percent,
                            !.time_step_hours = time_step_hours,
                            !.calls = @ + 1,
                            !.short_drop = IF seen /\ room_state'.time_dry_hours <= 6 * Milli
                                           THEN fall ELSE @,
                            !.long_drop = IF seen /\ room_state'.time_dry_hours > 24 * Milli
                                          THEN fall ELSE @]
    /\ UNCHANGED <<serverVars, IS_SIMULATION_NODE, pc, sensors_lock, coap_lock, sensor_a_enabled,
                   sensor_b_enabled, status, valid_read, temparature, humidity,
                   json_buffer, radio, sent_in_cycle, accessed>>

VttNext ==
    \/ Vtt_Init
    \/ Vtt_Update(VttTemps, VttHums, VttSteps, VttGrowth)

VttSpec == VttInit /\ [][VttNext]_vars

(* C15: from vtt_init on and after every vtt_update, whatever temperature, *)
(* humidity and non-negative time step the call is given, inside or       *)
(* outside the range of the model, mold_index lies in [0.0, 6.0].         *)
C15_IndexWithinCaps ==
    room_state # NotCreated =>
        /\ room_state.mold_index >= 0 * Micro
        /\ room_state.mold_index <= 6 * Micro

\* A growth call given 120 % humidity has left the index at the cap.
C15_Witness ==
    /\ room_state # NotCreated
    /\ diag.calls > 0
    /\ diag.rh_percent > 100 * Micro
    /\ room_state.growing_condition
    /\ room_state.mold_index = 6 * Micro

\* The call that has just returned: a step of VttSpec that counts a call.
VttCalled == room_state # NotCreated /\ diag'.calls = diag.calls + 1

(* C16: every vtt_update step is in exactly one phase.  Clamped humidity  *)
(* strictly above rh_crit: growth, growing_condition true, the time step  *)
(* added to time_wet_hours, time_dry_hours zero.  Otherwise: decline,     *)
(* growing_condition false, the time step added to time_dry_hours,        *)
(* time_wet_hours zero.  After an update with a positive time step        *)
(* exactly one of the two times is non-zero and growing_condition says    *)
(* which: true iff it is time_wet_hours.                                  *)
C16_OnePhasePerStep ==
    /\ [][VttCalled =>
            LET safe_rh == IF diag'.rh_percent < 1 * Micro THEN 1 * Micro
                           ELSE IF diag'.rh_percent > 100 * Micro THEN 100 * Micro
                           ELSE diag'.rh_percent
                dt == diag'.time_step_hours
            IN  IF safe_rh > room_state'.rh_crit
                THEN /\ room_state'.growing_condition
                     /\ room_state'.time_wet_hours = room_state.time_wet_hours + dt
                     /\ room_state'.time_dry_hours = 0
                ELSE /\ ~room_state'.growing_condition
                     /\ room_state'.time_dry_hours = room_state.time_dry_hours + dt
                     /\ room_state'.time_wet_hours = 0]_vars
    /\ [](room_state # NotCreated /\ diag.calls > 0 /\ diag.time_step_hours > 0 =>
            /\ (room_state.time_wet_hours # 0) # (room_state.time_dry_hours # 0)
            /\ room_state.growing_condition = (room_state.time_wet_hours # 0))

\* A dry step after growth: the index is above 0, so wet time had been
\* accumulated, and it is back at zero.
C16_Witness ==
    /\ room_state # NotCreated
    /\ diag.calls >= 2
    /\ diag.time_step_hours > 0
    /\ room_state.mold_index > 0
    /\ ~room_state.growing_condition
    /\ room_state.time_dry_hours > 0
    /\ room_state.time_wet_hours = 0

(* C17: in a dry spell, a decline step that leaves the accumulated dry    *)
(* time above 6 h and at most 24 h leaves mold_index as it was; a decline *)
(* step over a positive time that leaves the dry time at most 6 h or      *)
(* above 24 h lowers a positive mold_index.                               *)
C17_StabilityPeriod ==
    [][VttCalled /\ ~room_state'.growing_condition =>
         LET time_dry == room_state'.time_dry_hours
         IN  /\ time_dry > 6 * Milli /\ time_dry <= 24 * Milli =>
                  room_state'.mold_index = room_state.mold_index
             /\ /\ time_dry <= 6 * Milli \/ time_dry > 24 * Milli
                /\ diag'.time_step_hours > 0
                /\ room_state.mold_index > 0
                => room_state'.mold_index < room_state.mold_index]_vars

\* A dry spell has been running for more than 6 h and at most 24 h with a
\* positive index, the last step being a positive one.
C17_Witness ==
    /\ room_state # NotCreated
    /\ diag.calls >= 2
    /\ diag.time_step_hours > 0
    /\ ~room_state.growing_condition
    /\ room_state.time_dry_hours > 6 * Milli
    /\ room_state.time_dry_hours <= 24 * Milli
    /\ room_state.mold_index > 0

(* C18: the index falls strictly faster per hour once a dry spell has    *)
(* lasted more than 24 h than it does during the first 6 h: of two        *)
(* one-hour decline steps that both leave the index above 0, the one      *)
(* after more than 24 h takes more off than the one within 6 h.           *)
C18_LongSpellDeclinesFaster ==
    diag.pc = "vtt" /\ diag.short_drop # NoDrop /\ diag.long_drop # NoDrop =>
        diag.long_drop > diag.short_drop

-----------------------------------------------------------------------------
(* vtt_get_risk_level called between the updates: diag.levels keeps, for   *)
(* each call, the number of updates made before it, the index it was given *)
(* and the level it returned.                                              *)

\* vtt_get_risk_level calls in a run.
MaxQueries == 2

RiskTemps == {24 * Micro}
RiskHums == {45 * Micro, 120 * Micro}
RiskSteps == {Milli}
RiskGrowth == {Half, Micro, 2 * Micro + Half}

RiskInit ==
    /\ NodeInit
    /\ IS_SIMULATION_NODE = FALSE
    /\ diag = [pc |-> "vtt", rh_percent |-> 0, time_step_hours |-> 0, calls |-> 0,
               short_drop |-> NoDrop, long_drop |-> NoDrop, levels |-> <<>>]

Risk_Get_writes ==
    /\ room_state # NotCreated
    /\ Len(diag.levels) < MaxQueries
    /\ diag' = [diag EXCEPT !.levels = Append(@, <<diag.calls, room_state.mold_index,
                                                    vtt_get_risk_level(room_state)>>)]
    /\ room_state' = [room_state EXCEPT !.mold_index = 0]
    /\ UNCHANGED <<serverVars, IS_SIMULATION_NODE, pc, sensors_lock, coap_lock, sensor_a_enabled,
                   sensor_b_enabled, status, valid_read, temparature, humidity,
                   json_buffer, radio, sent_in_cycle, accessed>>

Risk_Get ==
    /\ room_state # NotCreated
    /\ Len(diag.levels) < MaxQueries
    /\ diag' = [diag EXCEPT !.levels = Append(@, <<diag.calls, room_state.mold_index,
                                                    vtt_get_risk_level(room_state)>>)]
    /\ UNCHANGED <<serverVars, IS_SIMULATION_NODE, pc, sensors_lock, coap_lock, sensor_a_enabled,
                   sensor_b_enabled, status, valid_read, temparature, humidity,
                   room_state, json_buffer, radio, sent_in_cycle, accessed>>

RiskNext ==
    \/ Vtt_Init
    \/ Vtt_Update(RiskTemps, RiskHums, RiskSteps, RiskGrowth)
    \/ Risk_Get

RiskSpec == RiskInit /\ [][RiskNext]_vars

(* C19: vtt_get_risk_level gives a level for every mold_index, and the    *)
(* index alone decides it: Clean below 1.0, Warning from 1.0 to below     *)
(* 3.0, Alert from 3.0 to below 4.0, Critical from 4.0.  A higher index   *)
(* never gets a lower level.                                              *)
C19_RiskBands ==
    "levels" \in DOMAIN diag =>
        /\ \A i \in 1..Len(diag.levels) :
              LET index == diag.levels[i][2]
                  level == diag.levels[i][3]
              IN  /\ index < 1 * Micro => level = MOLD_RISK_CLEAN
                  /\ index >= 1 * Micro /\ index < 3 * Micro => level = MOLD_RISK_WARNING
                  /\ index >= 3 * Micro /\ index < 4 * Micro => level = MOLD_RISK_ALERT
                  /\ index >= 4 * Micro => level = MOLD_RISK_CRITICAL
        /\ \A i, j \in 1..Len(diag.levels) :
              diag.levels[i][2] <= diag.levels[j][2] => diag.levels[i][3] <= diag.levels[j][3]

\* The level of an index exactly on a threshold has been returned, and that
\* of a lower index in the band below it.
C19_Witness ==
    /\ "levels" \in DOMAIN diag
    /\ Len(diag.levels) = 2
    /\ diag.levels[1][2] \in {1 * Micro, 3 * Micro, 4 * Micro}
    /\ diag.levels[2][2] < diag.levels[1][2]
    /\ diag.levels[2][3] < diag.levels[1][3]

-----------------------------------------------------------------------------
(* The wet-then-dry run of the model: vtt_init for the sensitive material, *)
(* WetHours of updates at 24.0 C / 95.0 %, then DryHours of updates at     *)
(* 24.0 C and a humidity below rh_crit, at the TIME_STEP of either node.   *)
(* diag.hours is the time the updates have covered so far.                 *)

WetHours == 5
DryHours == 30

\* TIME_STEP: 0.25 in sensor_node1/src/main.c, 1.0 in part_001.
ScenarioSteps == {Milli \div 4, Milli}

\* dM per hour of the growth phase at 24.0 / 95.0 for the sensitive
\* material: k1 = 1, base_growth_rate = 1 / (7 exp(-0.68 ln 24 - 13.9 ln 95
\* + 66.02)) = 0.08160 and k2 = 1 - exp(2.3 (M - 4.5)) in (0.999, 1] for an
\* index below 1; the two values bracket the product.
ScenarioRates == {81500, 81600}

ScenarioDry == {30 * Micro, 79 * Micro}

ScenarioInit ==
    /\ NodeInit
    /\ IS_SIMULATION_NODE = FALSE
    /\ \E dt \in ScenarioSteps :
          diag = [pc |-> "scenario", rh_percent |-> 0, time_step_hours |-> dt,
                  calls |-> 0, hours |-> 0]

Scenario_Create ==
    /\ room_state = NotCreated
    /\ room_state' = vtt_init(VTT_MAT_SENSITIVE)
    /\ UNCHANGED <<serverVars, IS_SIMULATION_NODE, pc, sensors_lock, coap_lock, sensor_a_enabled,
                   sensor_b_enabled, status, valid_read, temparature, humidity,
                   json_buffer, radio, sent_in_cycle, accessed, diag>>

Scenario_Wet ==
    /\ room_state # NotCreated
    /\ diag.hours < WetHours * Milli
    /\ room_state' \in vtt_update(room_state, 24 * Micro, 95 * Micro, diag.time_step_hours,
                                  {(r * diag.time_step_hours) \div Milli : r \in ScenarioRates})
    /\ diag' = [diag EXCEPT !.rh_percent = 95 * Micro,
                            !.calls = @ + 1,
                            !.hours = @ + diag.time_step_hours]
    /\ UNCHANGED <<serverVars, IS_SIMULATION_NODE, pc, sensors_lock, coap_lock, sensor_a_enabled,
                   sensor_b_enabled, status, valid_read, temparature, humidity,
                   json_buffer, radio, sent_in_cycle, accessed>>

Scenario_Dry ==
    /\ room_state # NotCreated
    /\ diag.hours >= WetHours * Milli
    /\ diag.hours < (WetHours + DryHours) * Milli
    /\ \E rh_percent \in ScenarioDry :
          /\ room_state' \in vtt_update(room_state, 24 * Micro, rh_percent,
                                        diag.time_step_hours, {})
          /\ diag' = [diag EXCEPT !.rh_percent = rh_percent,
                                  !.calls = @ + 1,
                                  !.hours = @ + diag.time_step_hours]
    /\ UNCHANGED <<serverVars, IS_SIMULATION_NODE, pc, sensors_lock, coap_lock, sensor_a_enabled,
                   sensor_b_enabled, status, valid_read, temparature, humidity,
                   json_buffer, radio, sent_in_cycle, accessed>>

ScenarioNext ==
    \/ Scenario_Create
    \/ Scenario_Wet
    \/ Scenario_Dry

ScenarioSpec == ScenarioInit /\ [][ScenarioNext]_vars

(* C21: on a freshly initialised sensitive-material model, after 5 hours  *)
(* of updates at 24.0 / 95.0 the index is strictly above its initial      *)
(* value; in the 30 hours of dry updates that follow, growing_condition   *)
(* is false after every step, and every step that leaves the dry time     *)
(* above 24 h leaves the index strictly lower than it found it.           *)
C21_WetThenDry ==
    /\ [](room_state # NotCreated /\ diag.hours = WetHours * Milli =>
             room_state.mold_index > vtt_init(VTT_MAT_SENSITIVE).mold_index)
    /\ [][room_state # NotCreated /\ diag.hours >= WetHours * Milli
              /\ diag'.calls = diag.calls + 1 =>
                 /\ ~room_state'.growing_condition
                 /\ room_state'.time_dry_hours > 24 * Milli =>
                       room_state'.mold_index < room_state.mold_index]_vars

\* The end of the run: 30 h dry, the index still above 0.
C21_Witness ==
    /\ room_state # NotCreated
    /\ diag.hours = (WetHours + DryHours) * Milli
    /\ room_state.time_dry_hours = DryHours * Milli
    /\ ~room_state.growing_condition
    /\ room_state.mold_index > 0

(* C22: room_state is created once, by the vtt_init before the MoldUpdate *)
(* loop, and the task never comes back to it.  room_state changes only in *)
(* that vtt_init and in the vtt_update of a cycle whose read gave a       *)
(* sample: a cycle without a sample leaves every field of it as it was    *)
(* and ends with no mold report sent.                                     *)
C22_StateSurvivesSkippedCycle ==
    /\ [][pc[MoldUpdate] # "init" =>
              pc'[MoldUpdate] # "init" /\ room_state' # NotCreated]_vars
    /\ [][room_state' # room_state =>
              \/ pc[MoldUpdate] = "init"
              \/ pc[MoldUpdate] = "decide" /\ valid_read[MoldUpdate]]_vars
    /\ [][pc[MoldUpdate] = "decide" /\ ~valid_read[MoldUpdate] /\ pc'[MoldUpdate] # "decide" =>
              pc'[MoldUpdate] = "sleep" /\ room_state' = room_state]_vars
    /\ [](pc[MoldUpdate] = "sleep" /\ ~valid_read[MoldUpdate] =>
              sent_in_cycle[MoldUpdate] = 0)

\* A cycle without a sample has ended while the model holds an index above
\* 0 and a running wet time from an earlier cycle.
C22_Witness ==
    /\ pc[MoldUpdate] = "sleep"
    /\ ~valid_read[MoldUpdate]
    /\ room_state # NotCreated
    /\ room_state.mold_index > 0
    /\ room_state.growing_condition
    /\ room_state.time_wet_hours > 0

-----------------------------------------------------------------------------
(* The server with two sensor nodes reporting under either of two room     *)
(* names, the watchdog sweeping and the serial bridge draining the queue.  *)

\* Uptime at which the clock of the registry model stops, in ms.
MaxUptime == 20000

RegistryAddrs == {"fd00::1", "fd00::2"}
RegistryPayloads == {Report("Kitchen"), Report("Den")}
RegistryTypes == {TRUE}

\* Requests the handler is called with in a run.
MaxRequests == 2

RegistryInit == NodeInit /\ IS_SIMULATION_NODE = FALSE /\ diag = DiagIdle

RegistryNext ==
    \/ NetStep(RegistryAddrs, RegistryPayloads, RegistryTypes, MaxRequests)
    \/ WatchdogStep
    \/ Serial_Get(0)
    \/ Tick({SWEEP_SLEEP_MS}, MaxUptime)

RegistrySpec == RegistryInit /\ [][RegistryNext]_vars

\* The occupied slots that hold address ip.
SlotsOf(ip) == { n \in Occupied(registry) : registry[n].source_ip = ip }

(* C23: whatever node_manager_update and node_manager_check_timeout calls *)
(* have run or are running, no two occupied slots of the registry hold    *)
(* the same address; once an update has made its assignments there is     *)
(* exactly one entry with its address, and it carries the room name and   *)
(* the time of that update.                                               *)
C23_OneEntryPerAddress ==
    /\ \A m, n \in Occupied(registry) :
          m # n => registry[m].source_ip # registry[n].source_ip
    /\ net.pc = "update_unlock" /\ net.found =>
          /\ Cardinality(SlotsOf(net.msg.source_ip)) = 1
          /\ \A n \in SlotsOf(net.msg.source_ip) :
                /\ registry[n].room_name = net.room_name_buffer
                /\ registry[n].last_seen = net.now

\* The second update of fd00::1, as Den at a later time, has made its
\* assignments: the registry holds the one entry.
C23_Witness ==
    /\ net.pc = "update_unlock"
    /\ net.requests = 2
    /\ net.msg.source_ip = "fd00::1"
    /\ Occupied(registry) = {0}
    /\ registry[0].source_ip = "fd00::1"
    /\ registry[0].room_name = "Den"
    /\ registry[0].last_seen > 0
    /\ registry[0].last_seen = net.now

(* C24: node_manager_update for an address the registry holds writes the  *)
(* time of the call and the new room name into that entry and leaves it   *)
(* online, whether it was online or offline; it touches no other entry    *)
(* and takes no new slot.  For an address the registry does not hold,     *)
(* with a slot free, it fills the lowest empty slot with the address, the *)
(* room name, the time of the call and is_online = true.                  *)
C24_UpdateRefreshesOrInserts ==
    /\ [][net.pc \in {"update_search", "update_write", "update_unlock"} =>
              \A n \in Slots : n # net.node \/ net.pc # "update_write" =>
                                  registry'[n] = registry[n]]_vars
    /\ [][net.pc = "update_write" /\ Head(net.writes) # "source_ip" =>
              Occupied(registry') = Occupied(registry)]_vars
    /\ [](net.pc = "update_write" /\ Len(net.writes) = 4 =>
              /\ SlotsOf(net.msg.source_ip) = {}
              /\ net.node \notin Occupied(registry)
              /\ \A m \in Slots : m < net.node => m \in Occupied(registry))
    /\ [](net.pc = "update_write" /\ Len(net.writes) = 3 /\ Head(net.writes) = "last_seen" =>
              SlotsOf(net.msg.source_ip) = {net.node})
    /\ [](net.pc = "update_unlock" /\ net.found =>
              registry[net.node] = [source_ip |-> net.msg.source_ip,
                                    room_name |-> net.room_name_buffer,
                                    last_seen |-> net.now,
                                    is_online |-> TRUE])
    /\ [](net.pc = "update_unlock" /\ ~net.found =>
              Occupied(registry) = Slots /\ SlotsOf(net.msg.source_ip) = {})

\* An update has made its assignments to an entry whose node_lost alert is
\* still in the queue: the entry had been marked offline and is online again.
C24_Witness ==
    /\ net.pc = "update_unlock"
    /\ net.found
    /\ registry[net.node].is_online
    /\ registry[net.node].last_seen = net.now
    /\ \E i \in 1..Len(server_queue) :
          /\ "event" \in DOMAIN server_queue[i].json_payload
          /\ server_queue[i].source_ip = net.msg.source_ip

-----------------------------------------------------------------------------
(* The registry with more sensor nodes than it has slots: every call of    *)
(* node_manager_update is for the next address not heard of yet, all under *)
(* one room name; the clock jumps once, past the timeout, so that the      *)
(* entries made before the jump go offline and the later ones stay online. *)

\* node_manager_update calls in a run of the full-registry model.
FullRequests == 12

FullAddrs == <<"fd00::1", "fd00::2", "fd00::3", "fd00::4", "fd00::5", "fd00::6",
               "fd00::7", "fd00::8", "fd00::9", "fd00::a", "fd00::b", "fd00::c",
               "fd00::d", "fd00::e", "fd00::f", "fd00::10">>

\* The address of the next call.
FullNextAddr == { FullAddrs[net.requests + 1] }

FullNext ==
    \/ Update_Call(FullNextAddr, {"Kitchen"}, FullRequests)
    \/ UpdateStep
    \/ WatchdogStep
    \/ Serial_Get(0)
    \/ Tick({MaxUptime}, MaxUptime)

FullSpec == RegistryInit /\ [][FullNext]_vars

(* C25: with all MAX_NODES slots occupied, node_manager_update for an     *)
(* address the registry does not hold changes nothing in the registry: no *)
(* entry, online or offline, is evicted or overwritten; the call gives    *)
(* the lock back and returns.                                             *)
C25_FullRegistryDropsUpdate ==
    /\ [][/\ net.pc = "update_search"
          /\ Occupied(registry) = Slots
          /\ SlotsOf(net.msg.source_ip) = {}
          /\ net' # net
          => /\ registry' = registry
             /\ net'.pc = "update_unlock"
             /\ ~net'.found]_vars
    /\ [][net.pc = "update_unlock" /\ ~net.found /\ net' # net =>
              /\ registry' = registry
              /\ registry_lock = Network
              /\ registry_lock' = NoTask
              /\ net'.pc \in {"ack", "idle"}]_vars
    /\ [](net.pc \in {"update_unlock", "ack", "idle"} /\ net.updates = 1 /\ ~net.found =>
              /\ Occupied(registry) = Slots
              /\ SlotsOf(net.msg.source_ip) = {})

\* The update of an eleventh address has returned: the ten slots hold the
\* ten earlier addresses, some offline and some online.
C25_Witness ==
    /\ net.pc = "idle"
    /\ net.updates = 1
    /\ ~net.found
    /\ registry_lock # Network
    /\ { registry[n].source_ip : n \in Slots } = { FullAddrs[k] : k \in 1..MAX_NODES }
    /\ \E n \in Slots : ~registry[n].is_online
    /\ \E n \in Slots : registry[n].is_online

-----------------------------------------------------------------------------
(* The server with one sensor node that reports and then falls silent,     *)
(* with the serial bridge draining the queue or not.                       *)

\* Requests the handler is called with in a run of the watchdog model.
WatchdogRequests == 11

\* Uptime at which the clock of the watchdog model stops, in ms.
WatchdogUptime == 25000

WatchdogNext ==
    \/ NetStep({"fd00::1"}, {Report("Kitchen")}, {TRUE}, WatchdogRequests)
    \/ WatchdogStep
    \/ Serial_Get(0)
    \/ Tick({SWEEP_SLEEP_MS}, WatchdogUptime)

WatchdogSpec == RegistryInit /\ [][WatchdogNext]_vars

\* Entry n is at rest: node_manager_update is not in the middle of writing
\* it, and the watchdog is not between marking it and putting its alert.
AtRest(n) ==
    /\ ~(net.pc = "update_write" /\ net.node = n)
    /\ ~(wd.pc = "alert" /\ wd.node = n)

UpdateInRegistry == net.pc \in {"update_search", "update_write", "update_unlock"}
SweepInRegistry == wd.pc \in {"scan", "alert"}

(* C27: node_manager_update and node_manager_check_timeout hold           *)
(* registry_lock from their first access of the registry to their last    *)
(* and have released it when they return; the registry is changed only by *)
(* the holder of the lock; the two are never inside the registry          *)
(* together, so the sweep never reads an entry that an update has written *)
(* in part.                                                               *)
C27_RegistryLockCoversAccesses ==
    /\ [](UpdateInRegistry <=> registry_lock = Network)
    /\ [](SweepInRegistry <=> registry_lock = Watchdog)
    /\ [](~(UpdateInRegistry /\ SweepInRegistry))
    /\ [](SweepInRegistry => net.writes = <<>>)
    /\ [][ registry' # registry =>
              \/ registry_lock = Network /\ UpdateInRegistry /\ ~SweepInRegistry
              \/ registry_lock = Watchdog /\ SweepInRegistry /\ ~UpdateInRegistry ]_vars

\* The sweep waits at its k_mutex_lock while an update has written the
\* address and the label of a new entry and not yet last_seen and the flag.
C27_Witness ==
    /\ wd.pc = "lock"
    /\ registry_lock = Network
    /\ net.pc = "update_write"
    /\ net.writes = <<"last_seen", "is_online">>
    /\ registry[net.node].source_ip = net.msg.source_ip
    /\ ~registry[net.node].is_online

-----------------------------------------------------------------------------
(* The server with nobody taking messages out of server_queue: every       *)
(* request comes from another address, the watchdog sweeps.                *)

\* Requests the handler is called with in a run of the queue model.
QueueRequests == 11

QueueTypes == {TRUE, FALSE}

QueueNext ==
    \/ NetStep(FullNextAddr, {Report("Kitchen")}, QueueTypes, QueueRequests)
    \/ WatchdogStep
    \/ Tick({MaxUptime}, MaxUptime)

QueueSpec == RegistryInit /\ [][QueueNext]_vars

\* The first k reports of the queue model, as the handler puts them.
FirstReports(k) ==
    [i \in 1..k |-> [source_ip |-> FullAddrs[i], json_payload |-> Report("Kitchen")]]

QueueFull == Len(server_queue) = server_queue_max_msgs

(* C28: server_queue never holds more than its 10 messages; a put on the  *)
(* full queue, by the handler or by the watchdog, leaves the queue as it   *)
(* was and lets the caller go on at once (the handler to its               *)
(* acknowledgment, the watchdog to the next slot); with nobody taking      *)
(* messages out the queue only grows at its end, and after eleven reports  *)
(* it holds the first ten, the eleventh is dropped and the handler has     *)
(* returned as for any other request.                                      *)
C28_FullQueueDropsNewest ==
    /\ [](Len(server_queue) <= server_queue_max_msgs)
    /\ [](net.pc = "put" => ENABLED Net_Put)
    /\ [](wd.pc = "alert" => ENABLED Wd_Alert)
    /\ [][ net.pc = "put" /\ net'.pc # "put" /\ QueueFull =>
              /\ server_queue' = server_queue
              /\ net'.pc = "ack"
              /\ ~net'.put_ok ]_vars
    /\ [][ wd.pc = "alert" /\ wd'.pc # "alert" /\ QueueFull =>
              /\ server_queue' = server_queue
              /\ wd'.pc = "scan"
              /\ wd'.node = wd.node + 1 ]_vars
    /\ [][ /\ Len(server_queue) <= Len(server_queue')
           /\ Len(server_queue') <= Len(server_queue) + 1
           /\ SubSeq(server_queue', 1, Len(server_queue)) = server_queue ]_vars
    /\ []( /\ net.requests = QueueRequests
           /\ net.pc = "idle"
           /\ \A i \in 1..Len(server_queue) : server_queue[i].json_payload = Report("Kitchen")
           => /\ server_queue = FirstReports(server_queue_max_msgs)
              /\ ~net.put_ok
              /\ net.updates = 0
              /\ net.acks = IF net.confirmable THEN 1 ELSE 0 )

\* Eleven reports were handled, the eleventh was dropped, and the watchdog
\* has had the alert of an entry it marked offline dropped as well.
C28_Witness ==
    /\ net.requests = QueueRequests
    /\ net.pc = "idle"
    /\ ~net.put_ok
    /\ server_queue = FirstReports(server_queue_max_msgs)
    /\ \E n \in Occupied(registry) :
          /\ ~registry[n].is_online
          /\ AtRest(n)
          /\ LostAlerts(registry[n].source_ip) = 0

\* storedata_request_handler has returned from a request.
HandlerReturned == net.pc = "idle" /\ net.requests > 0 /\ ~net.direct

(* C29: when the handler returns from a confirmable request it has called *)
(* send_ack_response once, whether k_msgq_put stored the message or the    *)
(* queue was full; for a non-confirmable request it never calls it; and    *)
(* the handler returns only through that last step.                        *)
C29_AckWhateverThePut ==
    /\ [](HandlerReturned => net.acks = IF net.confirmable THEN 1 ELSE 0)
    /\ [](~net.confirmable => net.acks = 0)
    /\ [](net.pc # "idle" => net.acks = 0)
    /\ [][ net.pc # "idle" /\ net'.pc = "idle" /\ ~net.direct => net.pc = "ack" ]_vars

\* A confirmable request was dropped on the full queue and acknowledged.
C29_Witness ==
    /\ HandlerReturned
    /\ net.confirmable
    /\ ~net.put_ok
    /\ Len(server_queue) = server_queue_max_msgs
    /\ net.acks = 1

(* C30: whenever the handler returns from a request it has called         *)
(* node_manager_update for it, so that the sender's entry is refreshed,   *)
(* whether k_msgq_put stored the message or dropped it.                    *)
C30_EveryRequestUpdatesRegistry ==
    HandlerReturned => net.updates = 1

-----------------------------------------------------------------------------
(* The server with the serial bridge and a console that keeps every line:  *)
(* a few reports, each from another address, the watchdog's alerts for     *)
(* them, and the bridge taking its turn whenever a message waits.          *)

\* Requests the handler is called with in a run of the bridge model.
SerialRequests == 3

\* Lines the console keeps: more than the bridge model ever prints.
SerialLines == 8

SerialNext ==
    \/ NetStep(FullNextAddr, {Report("Kitchen")}, {TRUE}, SerialRequests)
    \/ WatchdogStep
    \/ Serial_Get(SerialLines)
    \/ Tick({MaxUptime}, MaxUptime)

\* serial_thread_entry loops forever on a k_msgq_get that waits: a message
\* that stays in the queue is taken.
SerialSpec ==
    /\ RegistryInit
    /\ [][SerialNext]_vars
    /\ WF_vars(Serial_Get(SerialLines))

\* The reports and the alerts of the bridge model.
SerialMessages ==
    { [source_ip |-> FullAddrs[i], json_payload |-> Report("Kitchen")] :
         i \in 1..SerialRequests }
    \cup { [source_ip |-> FullAddrs[i],
            json_payload |-> NodeLost("Kitchen", FullAddrs[i])] : i \in 1..SerialRequests }

\* Every accepted message, in the order of acceptance: the lines printed,
\* then the lines of the messages still waiting.
AcceptedLog == sink \o [i \in 1..Len(server_queue) |-> DataLine(server_queue[i])]

IsReportLine(line) == line.json_payload = Report("Kitchen")

\* Reports the handler has put so far.
ReportsPut == net.requests - (IF net.pc = "put" THEN 1 ELSE 0)

InQueue(m) == \E i \in 1..Len(server_queue) : server_queue[i] = m
InSink(m) == \E i \in 1..Len(sink) : sink[i] = DataLine(m)

(* C31: the lines printed followed by the messages waiting are always the *)
(* accepted messages in the order of their acceptance, each once and       *)
(* unchanged, reports and alerts alike: a step adds at most one message at *)
(* the end; the bridge takes the oldest message, one per turn, prints it   *)
(* as it is and cannot take a turn while the queue is empty; and every     *)
(* message in the queue is printed in the end.                             *)
C31_BridgePrintsInOrder ==
    /\ [][ /\ Len(AcceptedLog') \in {Len(AcceptedLog), Len(AcceptedLog) + 1}
           /\ SubSeq(AcceptedLog', 1, Len(AcceptedLog)) = AcceptedLog ]_vars
    /\ [][ sink' # sink \/ Len(server_queue') < Len(server_queue) =>
              /\ server_queue # <<>>
              /\ server_queue' = Tail(server_queue)
              /\ sink' = Append(sink, DataLine(Head(server_queue))) ]_vars
    /\ [](server_queue = <<>> => ~ENABLED Serial_Get(SerialLines))
    /\ [](SelectSeq(AcceptedLog, IsReportLine)
             = [i \in 1..ReportsPut |-> DataLine(FirstReports(ReportsPut)[i])])
    /\ [](\A i \in 1..SerialRequests :
             Len(SelectSeq(AcceptedLog,
                           LAMBDA line : line.json_payload
                                            = NodeLost("Kitchen", FullAddrs[i])))
                = LostAlerts(FullAddrs[i]))
    /\ \A m \in SerialMessages : InQueue(m) ~> InSink(m)

\* An alert was printed before a report that was accepted after it, and a
\* message is still waiting.
C31_Witness ==
    /\ server_queue # <<>>
    /\ \E i, j \in 1..Len(sink) :
          /\ i < j
          /\ ~IsReportLine(sink[i])
          /\ IsReportLine(sink[j])

-----------------------------------------------------------------------------
(* check_sensor on its own, over readings in which the driver's later      *)
(* answers vary whatever its earlier answers are: what a call that is not  *)
(* made would have returned must not matter.                               *)

SensorReadings ==
    [ready : {1, 0, -1}, fetch : {0, -5, -1}, tget : {0, -1}, hget : {0, -1},
     temperature : SensorValues({TEMP_MIN_VALID - 1, 20, TEMP_MAX_VALID + 1}),
     humidity : SensorValues({HUMIDITY_MIN_VALID - 1, 50, HUMIDITY_MAX_VALID + 1})]

SensorInit ==
    /\ NodeInit
    /\ IS_SIMULATION_NODE = FALSE
    /\ diag \in [pc : {"in"}, r : SensorReadings, code : {HEALTH_OK}, calls : {<<>>}]

Sensor_Check ==
    /\ diag.pc = "in"
    /\ diag' = [diag EXCEPT !.pc = "out",
                            !.code = check_sensor(diag.r, 0, 0).code,
                            !.calls = check_sensor_calls(diag.r)]
    /\ UNCHANGED <<nodeVars, serverVars>>

SensorNext == Sensor_Check

SensorSpec == SensorInit /\ [][SensorNext]_vars

RangeCodes == {TEMPERATURE_VAL_OUT_OF_RANGE, HUMIDITIY_VAL_OUT_OF_RANGE, VALUES_OUT_OF_RANGE}

(* C32: check_sensor stops at the first fault, in the order connectivity, *)
(* fetch, decode, range.  A device that is not ready is not fetched; a    *)
(* failed fetch gives SENSOR_VCC_FAIL for -5 and SENSOR_FETCH_FAIL for    *)
(* any other code, and nothing is decoded; two failed decodes give        *)
(* VALUES_GET_FAIL and one gives the code of its field; a range code or   *)
(* HEALTH_OK is returned only when both decodes succeeded.                *)
C32_FirstFaultWins ==
    diag.pc = "out" =>
        LET r == diag.r
        IN  /\ r.ready # 1 =>
                  /\ diag.code = IF r.ready = 0 THEN SENSOR_SDASCL_FAIL ELSE SENSOR_NOT_READY
                  /\ diag.calls = <<"device_is_ready">>
            /\ r.ready = 1 /\ r.fetch # 0 =>
                  /\ diag.code = IF r.fetch = -5 THEN SENSOR_VCC_FAIL ELSE SENSOR_FETCH_FAIL
                  /\ diag.calls = <<"device_is_ready", "sensor_sample_fetch">>
            /\ r.ready = 1 /\ r.fetch = 0 =>
                  /\ Len(diag.calls) = 4
                  /\ r.tget # 0 /\ r.hget # 0 => diag.code = VALUES_GET_FAIL
                  /\ r.tget # 0 /\ r.hget = 0 => diag.code = TEMP_VALUE_GET_FAIL
                  /\ r.tget = 0 /\ r.hget # 0 => diag.code = HUMI_VALUE_GET_FAIL
            /\ diag.code \in RangeCodes \cup {HEALTH_OK} =>
                  r.ready = 1 /\ r.fetch = 0 /\ r.tget = 0 /\ r.hget = 0

\* Both decodes failed on a fetched sample whose temperature field would
\* have been out of range.
C32_Witness ==
    /\ diag.pc = "out"
    /\ diag.r.ready = 1 /\ diag.r.fetch = 0
    /\ diag.r.tget # 0 /\ diag.r.hget # 0
    /\ diag.r.temperature.val1 > TEMP_MAX_VALID
    /\ diag.code = VALUES_GET_FAIL

(* C33: check_drift runs only when both individual checks returned       *)
(* HEALTH_OK.  When a channel has a fault, each final status is the code  *)
(* of the channel's own check: the fault code stays, and the other        *)
(* channel, if HEALTH_OK, stays HEALTH_OK.  The final statuses are both   *)
(* VALUE_DRIFT or neither is, and VALUE_DRIFT is given only to channels   *)
(* that were both HEALTH_OK.                                              *)
C33_DriftOnlyWhenBothOk ==
    diag.pc = "out" =>
        LET a == check_sensor(diag.A, 0, 0).code
            b == check_sensor(diag.B, 0, 0).code
        IN  /\ (a # HEALTH_OK \/ b # HEALTH_OK) => diag.status = <<a, b>>
            /\ diag.status[1] = VALUE_DRIFT <=> diag.status[2] = VALUE_DRIFT
            /\ VALUE_DRIFT \in {diag.status[1], diag.status[2]} =>
                  a = HEALTH_OK /\ b = HEALTH_OK

\* Sensor A has lost its power, sensor B is Ok with values far from the
\* zeros left in A's scratch variables, and B stays HEALTH_OK.
C33_Witness ==
    /\ diag.pc = "out"
    /\ diag.A = Fail(1, -5, 0, 0)
    /\ check_sensor(diag.B, 0, 0).code = HEALTH_OK
    /\ sensor_value_to_double(diag.B.temperature) > MAX_DRIFT_THRESHOLD * Micro
    /\ diag.status = <<SENSOR_VCC_FAIL, HEALTH_OK>>

-----------------------------------------------------------------------------
(* The node on the real sensors, with reads in which a sensor that the     *)
(* last Health cycle found Ok has failed since.                            *)

\* What an uninitialised struct sensor_value may hold when
\* sensor_channel_get fails without writing it: any value, one of them here.
RawGarbage == {999 * Micro}

\* What sensor_sample_fetch and the two sensor_channel_get calls of
\* get_sensor_data leave in the task's values for a sensor answering r,
\* with the return codes that get_sensor_data does not look at.
sensor_read(r, U) ==
    { [temp |-> t, humi |-> h, fetch |-> r.fetch, tget |-> r.tget, hget |-> r.hget] :
         t \in (IF r.tget = 0 THEN {sensor_value_to_double(r.temperature)} ELSE U),
         h \in (IF r.hget = 0 THEN {sensor_value_to_double(r.humidity)} ELSE U) }

\* A good sample, a fetch that fails on lost power (the channels decode the
\* driver's old buffer), a humidity decode that fails.
RawReadings == {Sample(20, 50), Fail(1, -5, 0, 0), Fail(1, 0, 0, -1)}

RawValues == UNION { sensor_read(r, RawGarbage) : r \in RawReadings }

RawPairs == { <<Sample(20, 50), Sample(20, 50)>>, <<Sample(20, 50), Fail(0, 0, 0, 0)>> }

RawNext ==
    \/ HealthStep(RawPairs)
    \/ TelemetryStep(RawValues, NodeHours)
    \/ MoldUpdateStep(RawValues, NodeHours, NodeLevels)

\* The node reads its real sensors.
RawInit == Init /\ IS_SIMULATION_NODE = FALSE

RawSpec == RawInit /\ [][RawNext]_vars

\* Task t has passed its sample on: Telemetry to its report, MoldUpdate to
\* vtt_update and its report.
PassedOn(t) == valid_read[t] /\ pc[t] \in {"lock_coap", "build", "send", "unlock_coap"}

\* The values v of one sensor were fetched and decoded in this read and are
\* within the valid ranges.
Validated(v) ==
    /\ v.fetch = 0 /\ v.tget = 0 /\ v.hget = 0
    /\ v.temp >= TEMP_MIN_VALID * Micro /\ v.temp <= TEMP_MAX_VALID * Micro
    /\ v.humi >= HUMIDITY_MIN_VALID * Micro /\ v.humi <= HUMIDITY_MAX_VALID * Micro

(* C34: every sample that Telemetry or MoldUpdate passes on was made of   *)
(* channels that were fetched and decoded without error in that read and  *)
(* whose values are within the valid ranges.                              *)
C34_OnlyValidatedSamples ==
    \A t \in Readers :
        PassedOn(t) => \A x \in accessed[t] : Validated(x[2])

-----------------------------------------------------------------------------
(* parse_room_name on its own, over payloads put together from a few       *)
(* pieces of JSON text in any order.                                       *)

\* Pieces in a payload, at most.
ParseLen == 5

KeyPiece == Quoted(Chars("room_name"))
ColonPiece == <<":">>
CommaPiece == <<",">>
NumberPiece == <<"2", "4">>
QuotePiece == <<"\"">>
DenPiece == Quoted(Chars("Den"))
\* A string of 21 characters, longer than the label buffer.
LongPiece == Quoted(Chars("Kitchen") \o Chars("Kitchen") \o Chars("Kitchen"))

StringPieces == {DenPiece, LongPiece}

Pieces == {KeyPiece, ColonPiece, CommaPiece, NumberPiece, QuotePiece} \cup StringPieces

RECURSIVE Concat(_)
Concat(ps) == IF ps = <<>> THEN <<>> ELSE Head(ps) \o Concat(Tail(ps))

ParseInit ==
    /\ NodeInit
    /\ IS_SIMULATION_NODE = FALSE
    /\ \E n \in 0..ParseLen :
          diag \in [pc : {"in"}, pieces : [1..n -> Pieces], out_buffer : {<<>>}]

Parse_Call ==
    /\ diag.pc = "in"
    /\ diag' = [diag EXCEPT !.pc = "out",
                            !.out_buffer = parse_room_name(Concat(diag.pieces),
                                                           ROOM_NAME_BUFFER_SIZE)]
    /\ UNCHANGED <<nodeVars, serverVars>>

ParseNext == Parse_Call

ParseSpec == ParseInit /\ [][ParseNext]_vars

\* The payload has a room_name member whose value is a string: the first
\* key is followed by a colon and a quoted string.
FirstKey(ps) == CHOOSE k \in 1..Len(ps) : ps[k] = KeyPiece /\ \A j \in 1..(k - 1) : ps[j] # KeyPiece

HasRoomName(ps) ==
    /\ \E k \in 1..Len(ps) : ps[k] = KeyPiece
    /\ FirstKey(ps) + 2 <= Len(ps)
    /\ ps[FirstKey(ps) + 1] = ColonPiece
    /\ ps[FirstKey(ps) + 2] \in StringPieces

\* The characters between the quotes of a string piece.
Unquoted(piece) == SubSeq(piece, 2, Len(piece) - 1)

(* C35: the label is the value of the payload's room_name member, cut to  *)
(* 19 characters, when the member is there with a string value, and is    *)
(* "Unknown" for every other payload; it never takes more than the 19     *)
(* characters the buffer has room for.                                    *)
C35_UnknownUnlessWellFormed ==
    diag.pc = "out" =>
        /\ Len(diag.out_buffer) <= ROOM_NAME_BUFFER_SIZE - 1
        /\ diag.out_buffer =
              IF HasRoomName(diag.pieces)
              THEN LET value == Unquoted(diag.pieces[FirstKey(diag.pieces) + 2])
                   IN  SubSeq(value, 1, IF Len(value) > ROOM_NAME_BUFFER_SIZE - 1
                                        THEN ROOM_NAME_BUFFER_SIZE - 1 ELSE Len(value))
              ELSE Chars("Unknown")

\* The entry the sweep is at expired before the sweep read the clock.
Expired(n) ==
    /\ registry[n].source_ip # ""
    /\ registry[n].is_online
    /\ wd.now - registry[n].last_seen > TIMEOUT_SECONDS * 1000

(* C36: a step of the sweep changes the registry only by clearing the      *)
(* online flag of the entry it is at, and only when that entry is          *)
(* occupied, online and older than the threshold by the sweep's clock; an  *)
(* entry of exactly the threshold's age, an offline entry and an empty     *)
(* slot are passed over, and address, label and last_seen of every slot    *)
(* stay as they are.                                                       *)
C36_SweepClearsOnlyExpiredFlags ==
    [][ SweepInRegistry /\ wd' # wd =>
           /\ \A n \in Slots :
                 /\ registry'[n].source_ip = registry[n].source_ip
                 /\ registry'[n].room_name = registry[n].room_name
                 /\ registry'[n].last_seen = registry[n].last_seen
                 /\ registry'[n].is_online # registry[n].is_online =>
                       /\ n = wd.node
                       /\ wd.pc = "scan"
                       /\ Expired(n)
                       /\ ~registry'[n].is_online
           /\ wd.pc = "scan" /\ wd.node < MAX_NODES /\ ~Expired(wd.node) =>
                 registry' = registry /\ wd'.node = wd.node + 1
           /\ wd.pc = "scan" /\ wd.node < MAX_NODES /\ Expired(wd.node) =>
                 ~registry'[wd.node].is_online ]_vars

\* The sweep has passed over an online entry of exactly the threshold's age.
C36_Witness ==
    /\ wd.pc = "scan"
    /\ \E n \in Occupied(registry) :
          /\ n < wd.node
          /\ registry[n].is_online
          /\ wd.now - registry[n].last_seen = TIMEOUT_SECONDS * 1000

-----------------------------------------------------------------------------
(* main(): thread creation, priorities and start delays                   *)

HIGHEST_PRIORITY == 1
MEDIUM_PRIORITY == 2
LOWEST_PRIORITY == 3

\* The priority each thread is created with; a lower number runs first.
priority(t) ==
    CASE t = Health -> HIGHEST_PRIORITY
      [] t = Telemetry -> MEDIUM_PRIORITY
      [] t = MoldUpdate -> LOWEST_PRIORITY

\* Steps in which a thread waits for a device: an I2C transfer or the radio.
\* The thread may be off the processor for any part of such a step.
IoSteps == {"check", "read", "send"}

\* The start delay of thread t has expired (K_NO_WAIT for Health).
Started(t) == t \in diag.started

\* Thread t is pending on a mutex another thread holds.
Pending(t) ==
    \/ pc[t] = "lock_sensors" /\ ~k_mutex_free(sensors_lock)
    \/ pc[t] = "lock_coap" /\ ~k_mutex_free(coap_lock)

\* Thread t is certainly in the ready queue: started, not in k_msleep, not
\* pending on a mutex and not waiting for a device.
Runnable(t) == Started(t) /\ pc[t] \notin ({"sleep"} \cup IoSteps) /\ ~Pending(t)

\* A scheduler without priorities: any ready thread may run.
may_run_any(t) == TRUE

\* Preemptive priority scheduling: thread t runs only while no thread of a
\* higher priority is ready.
may_run(t) == \A u \in Tasks : priority(u) < priority(t) => ~Runnable(u)

\* A step of thread t under the scheduler; the expiry of a k_msleep is a
\* timer event and waits for no thread.
Scheduled(t) == Started(t) /\ (pc[t] = "sleep" \/ may_run(t))

\* Both sensors fine, or sensor B off the bus.
SchedPairs == { <<Sample(20, 50), Sample(20, 50)>>, <<Sample(20, 50), Fail(0, 0, 0, 0)>> }

\* Health is created with K_NO_WAIT, the two readers with a start delay.
SchedInit ==
    /\ NodeInit
    /\ IS_SIMULATION_NODE = FALSE
    /\ diag = [pc |-> "sched", started |-> {Health}]

\* The start delay of reader t expires.
Thread_Start(t) ==
    /\ diag.pc = "sched"
    /\ ~Started(t)
    /\ diag' = [diag EXCEPT !.started = @ \cup {t}]
    /\ UNCHANGED <<nodeVars, serverVars>>

SchedNext ==
    \/ \E t \in Readers : Thread_Start(t)
    \/ Scheduled(Health) /\ HealthStep(SchedPairs)
    \/ Scheduled(Telemetry) /\ TelemetryStep(NodeValues, NodeHours)
    \/ Scheduled(MoldUpdate) /\ MoldUpdateStep(NodeValues, NodeHours, NodeLevels)

SchedSpec == SchedInit /\ [][SchedNext]_vars

\* Reader t and Health are both ready to take the free sensor-bus lock.
BothReady(t) ==
    /\ Started(t)
    /\ pc[Health] = "lock_sensors" /\ pc[t] = "lock_sensors"
    /\ k_mutex_free(sensors_lock)

(* C37: under the priorities and start delays of main(), whenever a       *)
(* reader reads the enabled flags Health has already written both of them *)
(* (sensor A is healthy in every diagnostic here, so its flag is TRUE     *)
(* from Health's first write on), and from a state in which Health and a  *)
(* reader are both ready for the free sensor-bus lock the reader never    *)
(* takes it.                                                              *)
C37_HealthWritesAndLocksFirst ==
    [][\A t \in Readers :
         /\ (pc[t] = "read" /\ pc'[t] # "read")
              => sensor_a_enabled /\ pc[Health] \notin {"check", "set_a", "set_b"}
         /\ BothReady(t) => sensors_lock' # t]_vars

\* Health and Telemetry are both ready for the free lock in a later cycle,
\* after Health has written the flags and Telemetry has built a report.
C37_Witness ==
    /\ BothReady(Telemetry)
    /\ sensor_a_enabled
    /\ json_buffer.kind = "simple"

-----------------------------------------------------------------------------
(* C38: a slot that holds an address holds the same address in every      *)
(* later state; the number of occupied slots never decreases; and the     *)
(* occupied slots are always the first slots of the table.                *)
C38_EntriesAreNeverDeleted ==
    /\ [][\A n \in Slots :
            registry[n].source_ip # "" => registry'[n].source_ip = registry[n].source_ip]_vars
    /\ [][Cardinality(Occupied(registry')) >= Cardinality(Occupied(registry))]_vars
    /\ [](\A n \in Occupied(registry) : \A k \in Slots : k < n => k \in Occupied(registry))

\* The table is full, a sweep has marked an entry offline and a further
\* address has asked for a slot and has been turned away.
C38_Witness ==
    /\ Occupied(registry) = Slots
    /\ \E n \in Slots : ~registry[n].is_online
    /\ net.requests > MAX_NODES
    /\ net.pc = "idle"

-----------------------------------------------------------------------------
(* A node on real sensors, its three tasks in any order.                  *)

BootNext ==
    \/ HealthStep(SchedPairs)
    \/ TelemetryStep(NodeValues, NodeHours)
    \/ MoldUpdateStep(NodeValues, NodeHours, NodeLevels)

\* The node reads its real sensors.
BootInit == Init /\ IS_SIMULATION_NODE = FALSE

BootSpec == BootInit /\ [][BootNext]_vars

\* Reader t is in a cycle whose read found no sensor enabled.
SkippedCycle(t) == pc[t] \in {"unlock_sensors", "decide", "sleep"} /\ ~valid_read[t]

(* C39: the flags start FALSE and sensor B's is written after sensor A's  *)
(* (sensor A is healthy in every diagnostic here, so sensor_a_enabled is  *)
(* FALSE exactly until Health's first write); a reader whose read happens *)
(* before that write touches no sensor and gets no valid sample, and in   *)
(* such a cycle it sends nothing, never enters its report and MoldUpdate  *)
(* leaves room_state as it was.                                           *)
C39_NothingBeforeFirstDiagnostic ==
    /\ [](~sensor_a_enabled => ~sensor_b_enabled)
    /\ [][\A t \in Readers :
            (pc[t] = "read" /\ pc'[t] # "read" /\ ~sensor_a_enabled)
              => accessed'[t] = {} /\ ~valid_read'[t]]_vars
    /\ [](\A t \in Readers : SkippedCycle(t) => accessed[t] = {} /\ sent_in_cycle[t] = 0)
    /\ [](\A t \in Readers :
            pc[t] \in {"lock_coap", "build", "send", "unlock_coap"} => valid_read[t])
    /\ [][\A t \in Readers :
            (SkippedCycle(t) /\ pc[t] = "decide" /\ pc'[t] # "decide")
              => pc'[t] = "sleep" /\ room_state' = room_state /\ radio' = radio]_vars

\* Both readers have finished a cycle before Health's first write: neither
\* has a sample, nothing was sent and the model is as vtt_init left it.
C39_Witness ==
    /\ ~sensor_a_enabled
    /\ pc[Health] \in {"lock_sensors", "check"}
    /\ \A t \in Readers : pc[t] = "sleep" /\ ~valid_read[t] /\ sent_in_cycle[t] = 0
    /\ room_state = room_state_init

-----------------------------------------------------------------------------
(* C40: when the sweep's put of a node_lost alert finds the queue full,   *)
(* the queue and the registry stay as they are (the entry is offline and  *)
(* no alert was accepted), the sweep goes on to the next slot still       *)
(* holding the lock, can always take its next step and has released the   *)
(* lock when it sleeps; and for an entry that is offline no sweep         *)
(* prepares or puts another alert (its count of accepted alerts can only  *)
(* be reset, by an update).                                               *)
C40_DroppedAlertIsNotRetried ==
    /\ [][(wd.pc = "alert" /\ QueueFull /\ wd' # wd) =>
            /\ server_queue' = server_queue
            /\ lost_alerts' = lost_alerts
            /\ registry' = registry
            /\ ~registry'[wd.node].is_online
            /\ wd'.pc = "scan" /\ wd'.node = wd.node + 1
            /\ registry_lock' = Watchdog]_vars
    /\ [](wd.pc = "scan" => registry_lock = Watchdog /\ ENABLED (Wd_Scan \/ Wd_Unlock))
    /\ [](wd.pc = "sleep" => registry_lock # Watchdog)
    /\ [][\A n \in Occupied(registry) :
            (~registry[n].is_online /\ ~(wd.pc = "alert" /\ wd.node = n)) =>
                /\ ~(wd'.pc = "alert" /\ wd'.node = n)
                /\ LostAlerts(registry[n].source_ip)' <= LostAlerts(registry[n].source_ip)]_vars

\* A sweep is over and the lock is free; the queue is still full, and every
\* entry of the full table is offline without an accepted alert.
C40_Witness ==
    /\ wd.pc = "sleep" /\ k_mutex_free(registry_lock)
    /\ QueueFull
    /\ Occupied(registry) = Slots
    /\ \A n \in Slots : ~registry[n].is_online /\ LostAlerts(registry[n].source_ip) = 0

=============================================================================
